---- MODULE Spec2Model ----
(***************************************************************************)
(* A model of the demonstration scripts of the pythonLearning repository.  *)
(* Every demo is a closed program; `scenario` names the entry point that   *)
(* is running, and each group of variables is the state of one demo.       *)
(***************************************************************************)
EXTENDS Integers, Sequences, FiniteSets, TLC

(***************************************************************************)
(* Bounds of the model.                                                    *)
(***************************************************************************)
\* threads / increments per thread of demo_thread_safe_counter (5 and 20 in the source)
NumThreads == 3
IncrementsPerThread == 2
\* coroutines / increments per coroutine of demo_async_synchronization (5 and 20)
NumTasks == 3
IncrementsPerTask == 2
\* processes / increments per process of demo_shared_memory (4 and 25)
NumProcesses == 2
TimesPerProcess == 2
\* threads that call BankAccount.transfer concurrently
NumTransferThreads == 2
\* threads, items and buffer size of a ProducerConsumer (2, 2, 5 and 3 in the demo)
NumProducers == 2
NumConsumers == 1
ItemsPerProducer == 2
BufferSize == 1
\* retry_with_backoff: max_retries ranges over -RetryBound .. RetryBound
RetryBound == 2
\* the file watcher: clock ticks per second, how long the clock runs, how many
\* file-system events are delivered, and the clock when main() starts
TicksPerSecond == 2
MaxTicks == 5
MaxEvents == 2
StartTime == 4
\* how many times DatabaseConnection(...) is called
MaxCalls == 3
\* basic_classes.BankAccount: the largest amount and initial balance, and how
\* many calls are made on the account
MaxAmount == 3
MaxInitialBalance == 2
MaxOperations == 3

NoOwner == 0

VARIABLES
    scenario,        \* the demo that is running
    \* ---- threading_demo.Counter / demo_thread_safe_counter
    counter_value,   \* Counter._value
    counter_lock,    \* Counter._lock: the thread holding it, or NoOwner
    thrPc,           \* position of every increment_counter thread
    thrCurrent,      \* the local `current` of every thread inside increment()
    thrDone,         \* completed iterations of `for _ in range(times)`
    tcStarted,       \* threads started so far by the main thread
    tcJoined,        \* threads joined so far by the main thread
    tcFinal,         \* what counter.get_value() returned at the end (-1: not yet)
    \* ---- asyncio_demo.AsyncCounter / demo_async_synchronization
    async_value,     \* AsyncCounter._value
    async_locked,    \* asyncio.Lock._locked
    async_waiters,   \* asyncio.Lock._waiters: the tasks queued on the lock, in order
    async_woken,     \* the queued tasks whose future release() has completed
    taskPc,          \* where every increment_counter coroutine is suspended
    taskCurrent,     \* the local `current` of every coroutine inside increment()
    taskDone,        \* completed iterations of every coroutine
    asFinal,         \* what `await counter.get_value()` returned (-1: not yet)
    \* ---- multiprocessing_demo.increment_shared_counter / demo_shared_memory
    shared_value,    \* manager.Value("i", 0).value
    mp_lock,         \* manager.Lock(): the process holding it, or NoOwner
    procPc,          \* position of every increment_shared_counter process
    procCurrent,     \* the local `current` of every process
    procDone,        \* completed iterations of every process
    mpStarted,       \* processes started so far by demo_shared_memory
    mpJoined,        \* processes joined so far
    mpFinal,         \* final_value read by demo_shared_memory (-1: not yet)
    \* ---- threading_demo.BankAccount / demo_bank_account_threading
    balance,         \* BankAccount._balance of every account
    transactions,    \* BankAccount._transactions of every account
    rlock,           \* BankAccount._lock of every account: RLock owner and depth
    acctId,          \* id() of every account object
    opSpec,          \* the operation every thread runs
    opPc,            \* position of every thread inside its operation
    opLocal,         \* the balance a thread loaded for `+=` / `-=`
    opResult,        \* what the operation returned ("none" until it returns)
    bankStarted,     \* threads started so far by perform_operations
    bankJoined,      \* threads joined so far by perform_operations
    \* ---- threading_demo.ProducerConsumer
    buffer,          \* ProducerConsumer.buffer: the queue.Queue(maxsize=buffer_size)
    stop_event,      \* ProducerConsumer.stop_event
    prodPc,          \* position of every producer thread
    prodI,           \* the loop variable i of every producer
    consPc,          \* position of every consumer thread
    \* ---- the file demos of context_managers, special_methods, file_operations
    fioFunc,         \* the demo function that was called
    fioBlock,        \* the try statement it is in (index into its program)
    fioPhase,        \* "create", "body", "except", "finally", "returned", "raised"
    fioOp,           \* the next statement of the try body / finally block
    fioExc,          \* the exception in flight ("None": none)
    fioOrigin,       \* where that exception was raised: "create" or "body"
    files,           \* the paths that exist in the file system
    fioCreated,      \* the paths this call created
    \* ---- context_managers.demo_exit_stack
    esPc,            \* position inside demo_exit_stack
    esNext,          \* the next enter_context call (1..3)
    esCallbacks,     \* ExitStack._exit_callbacks
    is_open,         \* ManagedResource.is_open of every resource
    esExc,           \* the exception in flight ("None": none)
    esCaught,        \* the exception the except clause handled ("None": none)
    \* ---- main.demo_function
    dfLeaf,          \* the demo that is running (index into DemoFunctionCalls)
    dfSite,          \* the next try statement of that demo
    dfPc,            \* "running", "returned" or "raised"
    dfExc,           \* the exception that left demo_function ("None": none)
    \* ---- best_practices.retry_with_backoff: one call of the wrapper
    max_retries,     \* the decorator's argument
    attempt,         \* the loop variable of `for attempt in range(max_retries + 1)`
    last_exception,  \* the wrapper's local ("None": None)
    rtPc,            \* position inside the wrapper
    rtExit,          \* the statement through which the wrapper was left
    rtExc,           \* the exception that left the wrapper ("None": none)
    \* ---- watch.py and scripts/watch.py: CodeChangeHandler and main
    wtScript,        \* which of the two scripts runs
    now,             \* time.time(), in ticks
    last_run,        \* CodeChangeHandler.last_run, in ticks
    mainPc,          \* position of main()
    observer_alive,  \* observer.start() was called
    event_queue,     \* the events the observer thread has still to dispatch
    eventsSent,      \* events delivered so far
    handlerPc,       \* the observer thread: "idle", or "running" run_application
    runBegins,       \* the times at which run_application was entered, in order
    \* ---- advanced_features.SingletonMeta and DatabaseConnection
    instances,       \* SingletonMeta._instances: class -> object
    objects,         \* the DatabaseConnection objects made so far, by identity
    initRuns,        \* how many times DatabaseConnection.__init__ ran
    sgCalls,         \* the arguments of the calls made so far, in order
    sgReturned,      \* what each of those calls returned
    \* ---- inputOutput/utils.py: one call of read_config_file or write_log_entry
    utFunc,          \* the function that is called
    utPath,          \* what the path argument names in the file system
    utPc,            \* "try", "except" or "left"
    utExc,           \* the exception in flight ("None": none)
    utCaught,        \* the exception an except clause handled ("None": none)
    utResult,        \* the returned value ("unset" until the function returns)
    \* ---- main.py: one run of main()
    mnPc,            \* "main", "demo_function", "returned" or "raised"
    mnStatement,     \* the next statement of demo_function's body
    invocations,     \* how often each package's demo driver was called
    mnExc,           \* the exception that left main() ("None": none)
    \* ---- inheritance.py: demo_multiple_inheritance
    dkPc,            \* position inside demo_multiple_inheritance
    dkStack,         \* the classes whose __init__ is running, innermost last
    dkRan,           \* the classes whose __init__ body has run
    attrs,           \* the duck's instance dictionary
    dkNext,          \* the next of the five method calls on the duck
    dkReport,        \* what "Can fly:" and "Can swim:" were printed with
    \* ---- multiprocessing_demo.demo_multiprocessing, called by demo_concurrency
    mdPc,            \* "try", "except", "returned" or "raised"
    mdRan,           \* the sub-demos that returned, in order
    mdExc,           \* the exception in flight ("None": none)
    mdCaught,        \* the exception whose message was printed ("None": none)
    futuresCalled,   \* demo_concurrency has gone on to demo_concurrent_futures
    \* ---- basic_classes.BankAccount
    bcBalance,       \* BankAccount._balance
    bcLists,         \* the list objects, by identity; bcLists[1] is _transactions
    bcReturned,      \* the list get_transaction_history() returned last (0: none)
    bcCalls,         \* calls made so far
    bcSucceeded,     \* deposits and withdrawals that succeeded so far
    bcLast           \* the last call: what it was given, found and answered

threadVars == <<counter_value, counter_lock, thrPc, thrCurrent, thrDone,
                tcStarted, tcJoined, tcFinal>>

asyncVars == <<async_value, async_locked, async_waiters, async_woken, taskPc,
               taskCurrent, taskDone, asFinal>>

mpVars == <<shared_value, mp_lock, procPc, procCurrent, procDone, mpStarted,
            mpJoined, mpFinal>>

bankVars == <<balance, transactions, rlock, acctId, opSpec, opPc, opLocal,
              opResult, bankStarted, bankJoined>>

pcVars == <<buffer, stop_event, prodPc, prodI, consPc>>

fioVars == <<fioFunc, fioBlock, fioPhase, fioOp, fioExc, fioOrigin, files,
             fioCreated>>

esVars == <<esPc, esNext, esCallbacks, is_open, esExc, esCaught>>

dfVars == <<dfLeaf, dfSite, dfPc, dfExc>>

rtVars == <<max_retries, attempt, last_exception, rtPc, rtExit, rtExc>>

\* the sequential examples outside demo_function's exception demos
wtVars == <<wtScript, now, last_run, mainPc, observer_alive, event_queue,
            eventsSent, handlerPc, runBegins>>

sgVars == <<instances, objects, initRuns, sgCalls, sgReturned>>

utVars == <<utFunc, utPath, utPc, utExc, utCaught, utResult>>

mnVars == <<mnPc, mnStatement, invocations, mnExc>>

dkVars == <<dkPc, dkStack, dkRan, attrs, dkNext, dkReport>>

mdVars == <<mdPc, mdRan, mdExc, mdCaught, futuresCalled>>

bcVars == <<bcBalance, bcLists, bcReturned, bcCalls, bcSucceeded, bcLast>>

seqVars == <<rtVars, wtVars, sgVars, utVars, mnVars, dkVars, mdVars, bcVars>>

excVars == <<fioVars, esVars, dfVars>>

vars == <<scenario, threadVars, asyncVars, mpVars, bankVars, pcVars, excVars,
          seqVars>>

\* what the actions of one demo leave alone
concVars == <<threadVars, asyncVars, mpVars, bankVars, pcVars>>
exceptThread ==
    <<scenario, asyncVars, mpVars, bankVars, pcVars, excVars, seqVars>>
exceptAsync ==
    <<scenario, threadVars, mpVars, bankVars, pcVars, excVars, seqVars>>
exceptShared ==
    <<scenario, threadVars, asyncVars, bankVars, pcVars, excVars, seqVars>>
exceptBank ==
    <<scenario, threadVars, asyncVars, mpVars, pcVars, excVars, seqVars>>
exceptProdCons ==
    <<scenario, threadVars, asyncVars, mpVars, bankVars, excVars, seqVars>>
exceptFio == <<scenario, concVars, esVars, dfVars, seqVars>>
exceptExitStack == <<scenario, concVars, fioVars, dfVars, seqVars>>
exceptDemoFunction == <<scenario, concVars, fioVars, esVars, seqVars>>
exceptRetry ==
    <<scenario, concVars, excVars, wtVars, sgVars, utVars, mnVars, dkVars, mdVars, bcVars>>
exceptWatcher ==
    <<scenario, concVars, excVars, rtVars, sgVars, utVars, mnVars, dkVars, mdVars, bcVars>>
exceptSingleton ==
    <<scenario, concVars, excVars, rtVars, wtVars, utVars, mnVars, dkVars, mdVars, bcVars>>
exceptUtils ==
    <<scenario, concVars, excVars, rtVars, wtVars, sgVars, mnVars, dkVars, mdVars, bcVars>>
exceptMain ==
    <<scenario, concVars, excVars, rtVars, wtVars, sgVars, utVars, dkVars, mdVars, bcVars>>
exceptDuck ==
    <<scenario, concVars, excVars, rtVars, wtVars, sgVars, utVars, mnVars, mdVars, bcVars>>
exceptMpDemo ==
    <<scenario, concVars, excVars, rtVars, wtVars, sgVars, utVars, mnVars, dkVars, bcVars>>
exceptBasicAccount ==
    <<scenario, concVars, excVars, rtVars, wtVars, sgVars, utVars, mnVars, dkVars, mdVars>>

(***************************************************************************)
(* threading_demo.py: Counter and demo_thread_safe_counter                 *)
(***************************************************************************)
Threads == 1..NumThreads

InitThreadCounter ==
    /\ counter_value = 0
    /\ counter_lock = NoOwner
    /\ thrPc = [t \in Threads |-> "notstarted"]
    /\ thrCurrent = [t \in Threads |-> 0]
    /\ thrDone = [t \in Threads |-> 0]
    /\ tcStarted = 0
    /\ tcJoined = 0
    /\ tcFinal = -1

\* threading.Lock.acquire() as entered by `with self._lock:`: blocks while held
LockIgnored(lock) == TRUE
LockAcquirable(lock) == lock = NoOwner

\* thread.start() in the loop of demo_thread_safe_counter
ThreadStart ==
    /\ scenario = "thread_counter"
    /\ tcStarted < NumThreads
    /\ tcStarted' = tcStarted + 1
    /\ thrPc' = [thrPc EXCEPT ![tcStarted + 1] = "loop"]
    /\ UNCHANGED <<exceptThread, counter_value, counter_lock, thrCurrent, thrDone,
                   tcJoined, tcFinal>>

\* increment_counter: next iteration of the loop, entering `with self._lock`
IncrementAcquire(t) ==
    /\ scenario = "thread_counter"
    /\ thrPc[t] = "loop"
    /\ thrDone[t] < IncrementsPerThread
    /\ LockAcquirable(counter_lock)
    /\ counter_lock' = t
    /\ thrPc' = [thrPc EXCEPT ![t] = "read"]
    /\ UNCHANGED <<exceptThread, counter_value, thrCurrent, thrDone, tcStarted,
                   tcJoined, tcFinal>>

\* current = self._value
IncrementRead(t) ==
    /\ scenario = "thread_counter"
    /\ thrPc[t] = "read"
    /\ thrCurrent' = [thrCurrent EXCEPT ![t] = counter_value]
    /\ thrPc' = [thrPc EXCEPT ![t] = "sleep"]
    /\ UNCHANGED <<exceptThread, counter_value, counter_lock, thrDone, tcStarted,
                   tcJoined, tcFinal>>

\* time.sleep(0.001): the thread gives up the processor and comes back
IncrementSleep(t) ==
    /\ scenario = "thread_counter"
    /\ thrPc[t] = "sleep"
    /\ thrPc' = [thrPc EXCEPT ![t] = "write"]
    /\ UNCHANGED <<exceptThread, counter_value, counter_lock, thrCurrent, thrDone,
                   tcStarted, tcJoined, tcFinal>>

\* self._value = current + 1, then the with block releases the lock
IncrementWrite(t) ==
    /\ scenario = "thread_counter"
    /\ thrPc[t] = "write"
    /\ counter_value' = thrCurrent[t] + 1
    /\ counter_lock' = NoOwner
    /\ thrDone' = [thrDone EXCEPT ![t] = @ + 1]
    /\ thrPc' = [thrPc EXCEPT ![t] = "loop"]
    /\ UNCHANGED <<exceptThread, thrCurrent, tcStarted, tcJoined, tcFinal>>

\* the loop is exhausted: print "... finished incrementing" and return
IncrementFinish(t) ==
    /\ scenario = "thread_counter"
    /\ thrPc[t] = "loop"
    /\ thrDone[t] = IncrementsPerThread
    /\ thrPc' = [thrPc EXCEPT ![t] = "finished"]
    /\ UNCHANGED <<exceptThread, counter_value, counter_lock, thrCurrent, thrDone,
                   tcStarted, tcJoined, tcFinal>>

\* thread.join() in the second loop of demo_thread_safe_counter
ThreadJoin ==
    /\ scenario = "thread_counter"
    /\ tcStarted = NumThreads
    /\ tcJoined < NumThreads
    /\ thrPc[tcJoined + 1] = "finished"
    /\ tcJoined' = tcJoined + 1
    /\ UNCHANGED <<exceptThread, counter_value, counter_lock, thrPc, thrCurrent,
                   thrDone, tcStarted, tcFinal>>

\* Counter.get_value() called by the main thread for the final print
CounterGetValue ==
    /\ scenario = "thread_counter"
    /\ tcJoined = NumThreads
    /\ tcFinal = -1
    /\ LockAcquirable(counter_lock)
    /\ tcFinal' = counter_value
    /\ UNCHANGED <<exceptThread, counter_value, counter_lock, thrPc, thrCurrent,
                   thrDone, tcStarted, tcJoined>>

NextThreadCounter ==
    \/ ThreadStart
    \/ \E t \in Threads : IncrementAcquire(t)
    \/ \E t \in Threads : IncrementRead(t)
    \/ \E t \in Threads : IncrementSleep(t)
    \/ \E t \in Threads : IncrementWrite(t)
    \/ \E t \in Threads : IncrementFinish(t)
    \/ ThreadJoin
    \/ CounterGetValue

(***************************************************************************)
(* asyncio_demo.py: AsyncCounter and demo_async_synchronization            *)
(* A coroutine runs without interruption from one await to the next; the   *)
(* event loop then resumes any coroutine that is ready.                    *)
(***************************************************************************)
Tasks == 1..NumTasks

InitAsyncCounter ==
    /\ async_value = 0
    /\ async_locked = FALSE
    /\ async_waiters = <<>>
    /\ async_woken = {}
    /\ taskPc = [t \in Tasks |-> "created"]
    /\ taskCurrent = [t \in Tasks |-> 0]
    /\ taskDone = [t \in Tasks |-> 0]
    /\ asFinal = -1

\* asyncio.Lock.acquire(): taken at once only when unlocked and nobody is queued
AsyncLockIgnored(locked, waiters) == TRUE
AsyncLockFree(locked, waiters) == ~locked /\ waiters = <<>>

RemoveWaiter(waiters, t) == SelectSeq(waiters, LAMBDA w : w # t)

\* asyncio.Lock.release(): unlock and complete the future of the first waiter
WakeUpFirst(waiters, woken) ==
    IF waiters = <<>> THEN woken ELSE woken \cup {Head(waiters)}

\* the first run of an increment_counter coroutine: `async with self._lock` of
\* the first increment(), up to its first suspension
TaskBegin(t) ==
    /\ scenario = "async_counter"
    /\ taskPc[t] = "created"
    /\ IF AsyncLockFree(async_locked, async_waiters)
       THEN /\ async_locked' = TRUE
            /\ taskCurrent' = [taskCurrent EXCEPT ![t] = async_value]
            /\ taskPc' = [taskPc EXCEPT ![t] = "sleeping"]
            /\ UNCHANGED async_waiters
       ELSE /\ async_waiters' = Append(async_waiters, t)
            /\ taskPc' = [taskPc EXCEPT ![t] = "waiting"]
            /\ UNCHANGED <<async_locked, taskCurrent>>
    /\ UNCHANGED <<exceptAsync, async_value, async_woken,
                   taskDone, asFinal>>

\* a queued coroutine whose future was completed resumes inside acquire(), takes
\* the lock, reads `current = self._value` and suspends in asyncio.sleep
TaskResumeWithLock(t) ==
    /\ scenario = "async_counter"
    /\ taskPc[t] = "waiting"
    /\ t \in async_woken
    /\ async_waiters' = RemoveWaiter(async_waiters, t)
    /\ async_woken' = async_woken \ {t}
    /\ async_locked' = TRUE
    /\ taskCurrent' = [taskCurrent EXCEPT ![t] = async_value]
    /\ taskPc' = [taskPc EXCEPT ![t] = "sleeping"]
    /\ UNCHANGED <<exceptAsync, async_value, taskDone, asFinal>>

\* asyncio.sleep(0.001) is over: self._value = current + 1, the lock is released,
\* and the loop of increment_counter goes on to the next increment() or returns
TaskAfterSleep(t) ==
    /\ scenario = "async_counter"
    /\ taskPc[t] = "sleeping"
    /\ async_value' = taskCurrent[t] + 1
    /\ taskDone' = [taskDone EXCEPT ![t] = @ + 1]
    /\ LET woken == WakeUpFirst(async_waiters, async_woken)
       IN IF taskDone[t] + 1 < IncrementsPerTask
          THEN IF AsyncLockFree(FALSE, async_waiters)
               THEN /\ async_locked' = TRUE
                    /\ taskCurrent' = [taskCurrent EXCEPT ![t] = taskCurrent[t] + 1]
                    /\ taskPc' = [taskPc EXCEPT ![t] = "sleeping"]
                    /\ async_woken' = woken
                    /\ UNCHANGED async_waiters
               ELSE /\ async_locked' = FALSE
                    /\ async_waiters' = Append(async_waiters, t)
                    /\ async_woken' = woken
                    /\ taskPc' = [taskPc EXCEPT ![t] = "waiting"]
                    /\ UNCHANGED taskCurrent
          ELSE /\ async_locked' = FALSE
               /\ async_woken' = woken
               /\ taskPc' = [taskPc EXCEPT ![t] = "done"]
               /\ UNCHANGED <<async_waiters, taskCurrent>>
    /\ UNCHANGED <<exceptAsync, asFinal>>

\* asyncio.gather has returned; final_value = await counter.get_value()
AsyncGetValue ==
    /\ scenario = "async_counter"
    /\ \A t \in Tasks : taskPc[t] = "done"
    /\ asFinal = -1
    /\ AsyncLockFree(async_locked, async_waiters)
    /\ asFinal' = async_value
    /\ UNCHANGED <<exceptAsync, async_value, async_locked,
                   async_waiters, async_woken, taskPc, taskCurrent, taskDone>>

NextAsyncCounter ==
    \/ \E t \in Tasks : TaskBegin(t)
    \/ \E t \in Tasks : TaskResumeWithLock(t)
    \/ \E t \in Tasks : TaskAfterSleep(t)
    \/ AsyncGetValue

(***************************************************************************)
(* multiprocessing_demo.py: increment_shared_counter and demo_shared_memory*)
(* shared_value and lock are manager proxies: every access is one request  *)
(* served by the manager process.                                          *)
(***************************************************************************)
Processes == 1..NumProcesses

InitSharedMemory ==
    /\ shared_value = 0
    /\ mp_lock = NoOwner
    /\ procPc = [p \in Processes |-> "notstarted"]
    /\ procCurrent = [p \in Processes |-> 0]
    /\ procDone = [p \in Processes |-> 0]
    /\ mpStarted = 0
    /\ mpJoined = 0
    /\ mpFinal = -1

\* manager.Lock().acquire() as entered by `with lock:`: blocks while held
ManagerLockIgnored(lock) == TRUE
ManagerLockFree(lock) == lock = NoOwner

\* process.start()
ProcessStart ==
    /\ scenario = "shared_memory"
    /\ mpStarted < NumProcesses
    /\ mpStarted' = mpStarted + 1
    /\ procPc' = [procPc EXCEPT ![mpStarted + 1] = "loop"]
    /\ UNCHANGED <<exceptShared, shared_value, mp_lock,
                   procCurrent, procDone, mpJoined, mpFinal>>

\* `with lock:` of the next iteration
SharedAcquire(p) ==
    /\ scenario = "shared_memory"
    /\ procPc[p] = "loop"
    /\ procDone[p] < TimesPerProcess
    /\ ManagerLockFree(mp_lock)
    /\ mp_lock' = p
    /\ procPc' = [procPc EXCEPT ![p] = "read"]
    /\ UNCHANGED <<exceptShared, shared_value, procCurrent,
                   procDone, mpStarted, mpJoined, mpFinal>>

\* current = shared_value.value
SharedRead(p) ==
    /\ scenario = "shared_memory"
    /\ procPc[p] = "read"
    /\ procCurrent' = [procCurrent EXCEPT ![p] = shared_value]
    /\ procPc' = [procPc EXCEPT ![p] = "write"]
    /\ UNCHANGED <<exceptShared, shared_value, mp_lock,
                   procDone, mpStarted, mpJoined, mpFinal>>

\* time.sleep(0.001) and then shared_value.value = current + 1
SharedWrite(p) ==
    /\ scenario = "shared_memory"
    /\ procPc[p] = "write"
    /\ shared_value' = procCurrent[p] + 1
    /\ procPc' = [procPc EXCEPT ![p] = "release"]
    /\ UNCHANGED <<exceptShared, mp_lock, procCurrent,
                   procDone, mpStarted, mpJoined, mpFinal>>

\* the end of the with block: lock.release()
SharedRelease(p) ==
    /\ scenario = "shared_memory"
    /\ procPc[p] = "release"
    /\ mp_lock' = NoOwner
    /\ procDone' = [procDone EXCEPT ![p] = @ + 1]
    /\ procPc' = [procPc EXCEPT ![p] = "loop"]
    /\ UNCHANGED <<exceptShared, shared_value, procCurrent,
                   mpStarted, mpJoined, mpFinal>>

\* the loop is exhausted: print "... finished incrementing", the process exits
SharedFinish(p) ==
    /\ scenario = "shared_memory"
    /\ procPc[p] = "loop"
    /\ procDone[p] = TimesPerProcess
    /\ procPc' = [procPc EXCEPT ![p] = "exited"]
    /\ UNCHANGED <<exceptShared, shared_value, mp_lock,
                   procCurrent, procDone, mpStarted, mpJoined, mpFinal>>

\* process.join()
ProcessJoin ==
    /\ scenario = "shared_memory"
    /\ mpStarted = NumProcesses
    /\ mpJoined < NumProcesses
    /\ procPc[mpJoined + 1] = "exited"
    /\ mpJoined' = mpJoined + 1
    /\ UNCHANGED <<exceptShared, shared_value, mp_lock,
                   procPc, procCurrent, procDone, mpStarted, mpFinal>>

\* final_value = shared_value.value
SharedFinalValue ==
    /\ scenario = "shared_memory"
    /\ mpJoined = NumProcesses
    /\ mpFinal = -1
    /\ mpFinal' = shared_value
    /\ UNCHANGED <<exceptShared, shared_value, mp_lock,
                   procPc, procCurrent, procDone, mpStarted, mpJoined>>

NextSharedMemory ==
    \/ ProcessStart
    \/ \E p \in Processes : SharedAcquire(p)
    \/ \E p \in Processes : SharedRead(p)
    \/ \E p \in Processes : SharedWrite(p)
    \/ \E p \in Processes : SharedRelease(p)
    \/ \E p \in Processes : SharedFinish(p)
    \/ ProcessJoin
    \/ SharedFinalValue

(***************************************************************************)
(* threading_demo.py: BankAccount and demo_bank_account_threading          *)
(***************************************************************************)
Accounts == {"account1", "account2"}

\* account1 = BankAccount(1000.0); account2 = BankAccount(500.0)
InitialBalance1 == 1000
InitialBalance2 == 500

\* the `operations` list of perform_operations, one thread each
DemoOperations ==
    << [kind |-> "deposit",  self |-> "account1", other |-> "account1", amount |-> 100],
       [kind |-> "withdraw", self |-> "account1", other |-> "account1", amount |-> 50],
       [kind |-> "deposit",  self |-> "account2", other |-> "account2", amount |-> 200],
       [kind |-> "transfer", self |-> "account1", other |-> "account2", amount |-> 150],
       [kind |-> "withdraw", self |-> "account2", other |-> "account2", amount |-> 75] >>

\* id() gives distinct objects distinct numbers, in no particular order
ObjectIds == { f \in [Accounts -> 1..2] : f["account1"] # f["account2"] }

BankThreads == DOMAIN opSpec

InitAccounts ==
    /\ balance = [a \in Accounts |->
                    IF a = "account1" THEN InitialBalance1 ELSE InitialBalance2]
    /\ transactions = [a \in Accounts |-> <<>>]
    /\ rlock = [a \in Accounts |-> [owner |-> NoOwner, count |-> 0]]
    /\ acctId \in ObjectIds

InitBankDemo ==
    /\ InitAccounts
    /\ opSpec = DemoOperations
    /\ opPc = [t \in DOMAIN DemoOperations |-> "notstarted"]
    /\ opLocal = [t \in DOMAIN DemoOperations |-> 0]
    /\ opResult = [t \in DOMAIN DemoOperations |-> "none"]
    /\ bankStarted = 0
    /\ bankJoined = 0

\* threading.RLock: free, or already held by the asking thread
RLockIgnored(lock, t) == TRUE
RLockAcquirable(lock, t) == lock.owner = NoOwner \/ lock.owner = t

RLockAcquire(lock, t) == [owner |-> t, count |-> lock.count + 1]
RLockRelease(lock) ==
    IF lock.count = 1 THEN [owner |-> NoOwner, count |-> 0]
                      ELSE [owner |-> lock.owner, count |-> lock.count - 1]

\* the first statement a started thread runs
EntryPc(op) ==
    CASE op.kind = "deposit"  -> "d_acquire"
      [] op.kind = "withdraw" -> "w_acquire"
      [] op.kind = "transfer" -> "t_first"

\* thread.start() in perform_operations
BankThreadStart ==
    /\ scenario = "bank_demo"
    /\ bankStarted < Len(opSpec)
    /\ bankStarted' = bankStarted + 1
    /\ opPc' = [opPc EXCEPT ![bankStarted + 1] = EntryPc(opSpec[bankStarted + 1])]
    /\ UNCHANGED <<exceptBank, balance, transactions, rlock, acctId, opSpec,
                   opLocal, opResult, bankJoined>>

\* thread.join() in perform_operations
BankThreadJoin ==
    /\ scenario = "bank_demo"
    /\ bankStarted = Len(opSpec)
    /\ bankJoined < Len(opSpec)
    /\ opPc[bankJoined + 1] = "done"
    /\ bankJoined' = bankJoined + 1
    /\ UNCHANGED <<exceptBank, balance, transactions, rlock, acctId, opSpec, opPc,
                   opLocal, opResult, bankStarted>>

\* ---- BankAccount.deposit
\* with self._lock:
DepositAcquire(t) ==
    /\ opPc[t] = "d_acquire"
    /\ RLockAcquirable(rlock[opSpec[t].self], t)
    /\ rlock' = [rlock EXCEPT ![opSpec[t].self] = RLockAcquire(@, t)]
    /\ opPc' = [opPc EXCEPT ![t] = "d_sleep"]
    /\ UNCHANGED <<exceptBank, balance, transactions, acctId, opSpec, opLocal,
                   opResult, bankStarted, bankJoined>>

\* old_balance = self._balance; time.sleep(0.001)
DepositSleep(t) ==
    /\ opPc[t] = "d_sleep"
    /\ opPc' = [opPc EXCEPT ![t] = "d_load"]
    /\ UNCHANGED <<exceptBank, balance, transactions, rlock, acctId, opSpec,
                   opLocal, opResult, bankStarted, bankJoined>>

\* self._balance += amount, first half: the balance is loaded
DepositLoad(t) ==
    /\ opPc[t] = "d_load"
    /\ opLocal' = [opLocal EXCEPT ![t] = balance[opSpec[t].self]]
    /\ opPc' = [opPc EXCEPT ![t] = "d_store"]
    /\ UNCHANGED <<exceptBank, balance, transactions, rlock, acctId, opSpec,
                   opResult, bankStarted, bankJoined>>

\* self._balance += amount, second half: the sum is stored; the transaction is
\* appended, the line printed and the lock released
DepositStore(t) ==
    /\ opPc[t] = "d_store"
    /\ LET a == opSpec[t].self IN
        /\ balance' = [balance EXCEPT ![a] = opLocal[t] + opSpec[t].amount]
        /\ transactions' = [transactions EXCEPT
                              ![a] = Append(@, <<"Deposit", opSpec[t].amount>>)]
        /\ rlock' = [rlock EXCEPT ![a] = RLockRelease(@)]
    /\ opResult' = [opResult EXCEPT ![t] = "None"]
    /\ opPc' = [opPc EXCEPT ![t] = "done"]
    /\ UNCHANGED <<exceptBank, acctId, opSpec, opLocal, bankStarted, bankJoined>>

\* ---- BankAccount.withdraw
\* with self._lock:
WithdrawAcquire(t) ==
    /\ opPc[t] = "w_acquire"
    /\ RLockAcquirable(rlock[opSpec[t].self], t)
    /\ rlock' = [rlock EXCEPT ![opSpec[t].self] = RLockAcquire(@, t)]
    /\ opPc' = [opPc EXCEPT ![t] = "w_check"]
    /\ UNCHANGED <<exceptBank, balance, transactions, acctId, opSpec, opLocal,
                   opResult, bankStarted, bankJoined>>

\* if self._balance >= amount: ... else: print("Insufficient funds"); return False
WithdrawCheck(t) ==
    /\ opPc[t] = "w_check"
    /\ IF balance[opSpec[t].self] >= opSpec[t].amount
       THEN /\ opPc' = [opPc EXCEPT ![t] = "w_load"]
            /\ UNCHANGED <<rlock, opResult>>
       ELSE /\ rlock' = [rlock EXCEPT ![opSpec[t].self] = RLockRelease(@)]
            /\ opResult' = [opResult EXCEPT ![t] = "False"]
            /\ opPc' = [opPc EXCEPT ![t] = "done"]
    /\ UNCHANGED <<exceptBank, balance, transactions, acctId, opSpec, opLocal,
                   bankStarted, bankJoined>>

\* old_balance = self._balance; time.sleep(0.001); the balance is loaded for `-=`
WithdrawLoad(t) ==
    /\ opPc[t] = "w_load"
    /\ opLocal' = [opLocal EXCEPT ![t] = balance[opSpec[t].self]]
    /\ opPc' = [opPc EXCEPT ![t] = "w_store"]
    /\ UNCHANGED <<exceptBank, balance, transactions, rlock, acctId, opSpec,
                   opResult, bankStarted, bankJoined>>

\* self._balance -= amount is stored; append, print, release, return True
WithdrawStore(t) ==
    /\ opPc[t] = "w_store"
    /\ LET a == opSpec[t].self IN
        /\ balance' = [balance EXCEPT ![a] = opLocal[t] - opSpec[t].amount]
        /\ transactions' = [transactions EXCEPT
                              ![a] = Append(@, <<"Withdrawal", opSpec[t].amount>>)]
        /\ rlock' = [rlock EXCEPT ![a] = RLockRelease(@)]
    /\ opResult' = [opResult EXCEPT ![t] = "True"]
    /\ opPc' = [opPc EXCEPT ![t] = "done"]
    /\ UNCHANGED <<exceptBank, acctId, opSpec, opLocal, bankStarted, bankJoined>>

\* ---- BankAccount.transfer
\* first_lock, second_lock: the lock of the account with the smaller id() first
LockOrderSelfFirst(self, other) == <<self, other>>
LockOrder(self, other) ==
    IF acctId[self] < acctId[other] THEN <<self, other>> ELSE <<other, self>>

\* with first_lock:
TransferAcquireFirst(t) ==
    /\ opPc[t] = "t_first"
    /\ LET first == LockOrder(opSpec[t].self, opSpec[t].other)[1] IN
        /\ RLockAcquirable(rlock[first], t)
        /\ rlock' = [rlock EXCEPT ![first] = RLockAcquire(@, t)]
    /\ opPc' = [opPc EXCEPT ![t] = "t_second"]
    /\ UNCHANGED <<exceptBank, balance, transactions, acctId, opSpec, opLocal,
                   opResult, bankStarted, bankJoined>>

\* with second_lock:
TransferAcquireSecond(t) ==
    /\ opPc[t] = "t_second"
    /\ LET second == LockOrder(opSpec[t].self, opSpec[t].other)[2] IN
        /\ RLockAcquirable(rlock[second], t)
        /\ rlock' = [rlock EXCEPT ![second] = RLockAcquire(@, t)]
    /\ opPc' = [opPc EXCEPT ![t] = "t_debit"]
    /\ UNCHANGED <<exceptBank, balance, transactions, acctId, opSpec, opLocal,
                   opResult, bankStarted, bankJoined>>

\* if self._balance >= amount: self._balance -= amount ... else: return False
TransferDebit(t) ==
    /\ opPc[t] = "t_debit"
    /\ IF balance[opSpec[t].self] >= opSpec[t].amount
       THEN /\ balance' = [balance EXCEPT ![opSpec[t].self] = @ - opSpec[t].amount]
            /\ opPc' = [opPc EXCEPT ![t] = "t_credit"]
            /\ UNCHANGED opResult
       ELSE /\ opResult' = [opResult EXCEPT ![t] = "False"]
            /\ opPc' = [opPc EXCEPT ![t] = "t_release"]
            /\ UNCHANGED balance
    /\ UNCHANGED <<exceptBank, transactions, rlock, acctId, opSpec, opLocal,
                   bankStarted, bankJoined>>

\* other._balance += amount; both transaction lists are appended; return True
TransferCredit(t) ==
    /\ opPc[t] = "t_credit"
    /\ LET a == opSpec[t].self
           b == opSpec[t].other
           out == [transactions EXCEPT
                     ![a] = Append(@, <<"Transfer out", opSpec[t].amount>>)]
       IN /\ balance' = [balance EXCEPT ![b] = @ + opSpec[t].amount]
          /\ transactions' = [out EXCEPT
                                ![b] = Append(@, <<"Transfer in", opSpec[t].amount>>)]
    /\ opResult' = [opResult EXCEPT ![t] = "True"]
    /\ opPc' = [opPc EXCEPT ![t] = "t_release"]
    /\ UNCHANGED <<exceptBank, rlock, acctId, opSpec, opLocal, bankStarted,
                   bankJoined>>

\* the two with blocks are left: second_lock, then first_lock, is released
TransferRelease(t) ==
    /\ opPc[t] = "t_release"
    /\ LET order == LockOrder(opSpec[t].self, opSpec[t].other)
           inner == [rlock EXCEPT ![order[2]] = RLockRelease(@)]
       IN rlock' = [inner EXCEPT ![order[1]] = RLockRelease(@)]
    /\ opPc' = [opPc EXCEPT ![t] = "done"]
    /\ UNCHANGED <<exceptBank, balance, transactions, acctId, opSpec, opLocal,
                   opResult, bankStarted, bankJoined>>

TransferStep(t) ==
    \/ TransferAcquireFirst(t)
    \/ TransferAcquireSecond(t)
    \/ TransferDebit(t)
    \/ TransferCredit(t)
    \/ TransferRelease(t)

NextBankDemo ==
    \/ BankThreadStart
    \/ BankThreadJoin
    \/ \E t \in BankThreads : DepositAcquire(t)
    \/ \E t \in BankThreads : DepositSleep(t)
    \/ \E t \in BankThreads : DepositLoad(t)
    \/ \E t \in BankThreads : DepositStore(t)
    \/ \E t \in BankThreads : WithdrawAcquire(t)
    \/ \E t \in BankThreads : WithdrawCheck(t)
    \/ \E t \in BankThreads : WithdrawLoad(t)
    \/ \E t \in BankThreads : WithdrawStore(t)
    \/ \E t \in BankThreads : TransferAcquireFirst(t)
    \/ \E t \in BankThreads : TransferAcquireSecond(t)
    \/ \E t \in BankThreads : TransferDebit(t)
    \/ \E t \in BankThreads : TransferCredit(t)
    \/ \E t \in BankThreads : TransferRelease(t)

(***************************************************************************)
(* BankAccount.transfer called from several threads at once                *)
(***************************************************************************)
TransferThreads == 1..NumTransferThreads

\* amounts below and above the initial balances: both branches of transfer
TransferAmounts == {150, 1200}

TransferCalls ==
    { [kind |-> "transfer", self |-> a, other |-> b, amount |-> m] :
        a \in Accounts, b \in Accounts, m \in TransferAmounts }

InitTransfers ==
    /\ InitAccounts
    /\ opSpec \in [TransferThreads -> TransferCalls]
    /\ opPc = [t \in TransferThreads |-> "t_first"]
    /\ opLocal = [t \in TransferThreads |-> 0]
    /\ opResult = [t \in TransferThreads |-> "none"]
    /\ bankStarted = 0
    /\ bankJoined = 0

NextTransfers ==
    \/ \E t \in TransferThreads : TransferAcquireFirst(t)
    \/ \E t \in TransferThreads : TransferAcquireSecond(t)
    \/ \E t \in TransferThreads : TransferDebit(t)
    \/ \E t \in TransferThreads : TransferCredit(t)
    \/ \E t \in TransferThreads : TransferRelease(t)

(***************************************************************************)
(* threading_demo.py: ProducerConsumer                                     *)
(* stop() is a public method: a client may call it at any moment.          *)
(***************************************************************************)
Producers == 1..NumProducers
Consumers == 1..NumConsumers

InitProducerConsumer ==
    /\ buffer = <<>>
    /\ stop_event = FALSE
    /\ prodPc = [p \in Producers |-> "loop"]
    /\ prodI = [p \in Producers |-> 0]
    /\ consPc = [c \in Consumers |-> "loop"]

\* for i in range(items): if self.stop_event.is_set(): break
ProducerLoop(p) ==
    /\ prodPc[p] = "loop"
    /\ prodPc' = [prodPc EXCEPT ![p] =
                    IF prodI[p] < ItemsPerProducer /\ ~stop_event
                    THEN "put" ELSE "finished"]
    /\ UNCHANGED <<exceptProdCons, buffer, stop_event, prodI, consPc>>

\* self.buffer.put(item): blocks, without a timeout, while the queue is full
ProducerPut(p) ==
    /\ prodPc[p] = "put"
    /\ Len(buffer) < BufferSize
    /\ buffer' = Append(buffer, <<p, prodI[p]>>)
    /\ prodPc' = [prodPc EXCEPT ![p] = "sleep"]
    /\ UNCHANGED <<exceptProdCons, stop_event, prodI, consPc>>

\* print; time.sleep(random.uniform(0.1, 0.3)); next i
ProducerSleep(p) ==
    /\ prodPc[p] = "sleep"
    /\ prodI' = [prodI EXCEPT ![p] = @ + 1]
    /\ prodPc' = [prodPc EXCEPT ![p] = "loop"]
    /\ UNCHANGED <<exceptProdCons, buffer, stop_event, consPc>>

\* while not self.stop_event.is_set():
ConsumerLoop(c) ==
    /\ consPc[c] = "loop"
    /\ consPc' = [consPc EXCEPT ![c] = IF stop_event THEN "finished" ELSE "get"]
    /\ UNCHANGED <<exceptProdCons, buffer, stop_event, prodPc, prodI>>

\* item = self.buffer.get(timeout=1.0), an item is there
ConsumerGet(c) ==
    /\ consPc[c] = "get"
    /\ buffer # <<>>
    /\ buffer' = Tail(buffer)
    /\ consPc' = [consPc EXCEPT ![c] = "process"]
    /\ UNCHANGED <<exceptProdCons, stop_event, prodPc, prodI>>

\* the queue stayed empty for the timeout: except queue.Empty: continue
ConsumerTimeout(c) ==
    /\ consPc[c] = "get"
    /\ buffer = <<>>
    /\ consPc' = [consPc EXCEPT ![c] = "loop"]
    /\ UNCHANGED <<exceptProdCons, buffer, stop_event, prodPc, prodI>>

\* print; time.sleep(random.uniform(0.2, 0.4)); self.buffer.task_done()
ConsumerProcess(c) ==
    /\ consPc[c] = "process"
    /\ consPc' = [consPc EXCEPT ![c] = "loop"]
    /\ UNCHANGED <<exceptProdCons, buffer, stop_event, prodPc, prodI>>

\* ProducerConsumer.stop(): self.stop_event.set()
Stop ==
    /\ ~stop_event
    /\ stop_event' = TRUE
    /\ UNCHANGED <<exceptProdCons, buffer, prodPc, prodI, consPc>>

ProducerStep(p) == ProducerLoop(p) \/ ProducerPut(p) \/ ProducerSleep(p)

ConsumerStep(c) ==
    ConsumerLoop(c) \/ ConsumerGet(c) \/ ConsumerTimeout(c) \/ ConsumerProcess(c)

NextProducerConsumer ==
    \/ \E p \in Producers : ProducerLoop(p)
    \/ \E p \in Producers : ProducerPut(p)
    \/ \E p \in Producers : ProducerSleep(p)
    \/ \E c \in Consumers : ConsumerLoop(c)
    \/ \E c \in Consumers : ConsumerGet(c)
    \/ \E c \in Consumers : ConsumerTimeout(c)
    \/ \E c \in Consumers : ConsumerProcess(c)
    \/ Stop

(***************************************************************************)
(* Exceptions: the classes the demos raise and catch                       *)
(***************************************************************************)
\* the base class of every exception class: Python's built-in hierarchy and
\* the class statements of custom_exceptions.py and exception_chaining.py
ExcParent ==
    [ c \in { "Exception", "ArithmeticError", "ZeroDivisionError", "LookupError",
              "KeyError", "IndexError", "ValueError", "JSONDecodeError",
              "TypeError", "AttributeError", "RuntimeError", "OSError",
              "FileNotFoundError", "PermissionError",
              "IsADirectoryError", "UnicodeDecodeError",
              "custom.BusinessLogicError", "custom.ValidationError",
              "custom.AuthenticationError", "custom.ResourceNotFoundError",
              "custom.ConfigurationError",
              "chaining.DataProcessingError", "chaining.ValidationError",
              "chaining.TransformationError", "chaining.MultipleErrorsException" }
      |-> CASE c = "Exception" -> "BaseException"
            [] c \in {"ZeroDivisionError"} -> "ArithmeticError"
            [] c \in {"KeyError", "IndexError"} -> "LookupError"
            [] c \in {"JSONDecodeError", "UnicodeDecodeError"} -> "ValueError"
            [] c \in {"FileNotFoundError", "PermissionError", "IsADirectoryError"}
                 -> "OSError"
            [] c \in {"custom.ValidationError", "custom.AuthenticationError",
                      "custom.ResourceNotFoundError"} -> "custom.BusinessLogicError"
            [] c \in {"chaining.ValidationError", "chaining.TransformationError"}
                 -> "chaining.DataProcessingError"
            [] OTHER -> "Exception" ]

\* issubclass(c, d)
RECURSIVE IsSubclass(_, _)
IsSubclass(c, d) ==
    \/ c = d
    \/ c \in DOMAIN ExcParent /\ IsSubclass(ExcParent[c], d)

\* `except (d1, d2, ...)` matches an exception of class c
Matches(c, classes) == \E d \in classes : IsSubclass(c, d)

(***************************************************************************)
(* The demos that create temporary files.  Each is a sequence of try       *)
(* statements; a file made by NamedTemporaryFile(delete=False) precedes    *)
(* the try statement that uses it.                                         *)
(***************************************************************************)
Unlink(f, guard) == [kind |-> "unlink", file |-> f, guard |-> guard]
FileOp(kind, f) == [kind |-> kind, file |-> f, guard |-> "none"]

\* context_managers.demo_file_context_managers
FileContextProgram ==
    << [ creates  |-> {"temp"},
         body     |-> << FileOp("read", "temp") >>,
         handlers |-> {"FileNotFoundError", "PermissionError"},
         finally  |-> << Unlink("temp", "missing_ok") >> ],
       [ creates  |-> {},
         body     |-> << FileOp("read", "nonexistent_file.txt") >>,
         handlers |-> {"FileNotFoundError"},
         finally  |-> << >> ] >>

\* special_methods.demo_context_managers
SpecialMethodsProgram ==
    << [ creates  |-> {"temp"},
         body     |-> << FileOp("read", "temp") >>,
         handlers |-> {},
         finally  |-> << Unlink("temp", "exists") >> ] >>

\* file_operations.demo_advanced_io
AdvancedIoProgram ==
    << [ creates  |-> {"temp.bin"},
         body     |-> << FileOp("read", "temp.bin"), FileOp("stat", "temp.bin") >>,
         handlers |-> {},
         finally  |-> << Unlink("temp.bin", "none") >> ],
       [ creates  |-> {"temp.csv"},
         body     |-> << FileOp("read", "temp.csv") >>,
         handlers |-> {},
         finally  |-> << Unlink("temp.csv", "none") >> ],
       [ creates  |-> {"temp.txt"},
         body     |-> << FileOp("append", "temp.txt"), FileOp("read", "temp.txt"),
                         FileOp("read", "temp.txt") >>,
         handlers |-> {},
         finally  |-> << Unlink("temp.txt", "none") >> ] >>

\* file_operations.demo_file_operations: the two unlink calls end the try body
FileOperationsProgram ==
    << [ creates  |-> {"temp.txt"},
         body     |-> << FileOp("read", "temp.txt"), FileOp("append", "temp.txt"),
                         FileOp("read", "temp.txt"), FileOp("write", "temp.json"),
                         FileOp("json_load", "temp.json"),
                         Unlink("temp.txt", "none"), Unlink("temp.json", "none") >>,
         handlers |-> {"FileNotFoundError", "PermissionError", "JSONDecodeError"},
         finally  |-> << >> ] >>

FinallyDemos == {"demo_file_context_managers", "demo_context_managers",
                 "demo_advanced_io"}
FileDemos == FinallyDemos \cup {"demo_file_operations"}

Program(f) ==
    CASE f = "demo_file_context_managers" -> FileContextProgram
      [] f = "demo_context_managers"      -> SpecialMethodsProgram
      [] f = "demo_advanced_io"           -> AdvancedIoProgram
      [] f = "demo_file_operations"       -> FileOperationsProgram

CurBlock == Program(fioFunc)[fioBlock]

\* the statements of a try statement's finally clause
FinallyDropped(block) == << >>
FinallyBlock(block) == block.finally

\* what a file operation can do: succeed ("None") or raise.  A missing file
\* raises FileNotFoundError; otherwise the operating system may refuse.
OpOutcomes(o, fs) ==
    CASE o.kind \in {"read", "append", "stat"} ->
            IF o.file \notin fs THEN {"FileNotFoundError"}
            ELSE {"None", "PermissionError", "OSError"}
      [] o.kind = "write" -> {"None", "PermissionError"}
      [] o.kind = "json_load" ->
            IF o.file \notin fs THEN {"FileNotFoundError"}
            ELSE {"None", "JSONDecodeError"}
      [] o.kind = "unlink" ->
            IF o.file \in fs \/ o.guard # "none" THEN {"None"}
            ELSE {"FileNotFoundError"}

\* the file system after the operation succeeded
ApplyOp(o, fs) ==
    CASE o.kind = "write"  -> fs \cup {o.file}
      [] o.kind = "unlink" -> fs \ {o.file}
      [] OTHER -> fs

InitFileDemo ==
    /\ fioBlock = 1
    /\ fioPhase = "create"
    /\ fioOp = 1
    /\ fioExc = "None"
    /\ fioOrigin = "none"
    /\ files = {}
    /\ fioCreated = {}

\* with tempfile.NamedTemporaryFile(..., delete=False) as temp_file: write
FioCreate ==
    /\ scenario = "file_demo"
    /\ fioPhase = "create"
    /\ files' = files \cup CurBlock.creates
    /\ fioCreated' = fioCreated \cup CurBlock.creates
    /\ fioPhase' = "body"
    /\ fioOp' = 1
    /\ UNCHANGED <<exceptFio, fioFunc, fioBlock, fioExc, fioOrigin>>

\* the same, but the write inside the with block fails: the file stays behind
FioCreateFails ==
    /\ scenario = "file_demo"
    /\ fioPhase = "create"
    /\ CurBlock.creates # {}
    /\ files' = files \cup CurBlock.creates
    /\ fioCreated' = fioCreated \cup CurBlock.creates
    /\ fioExc' = "OSError"
    /\ fioOrigin' = "create"
    /\ fioPhase' = "raised"
    /\ UNCHANGED <<exceptFio, fioFunc, fioBlock, fioOp>>

\* one statement of the try body
FioBodyOp ==
    /\ scenario = "file_demo"
    /\ fioPhase = "body"
    /\ fioOp <= Len(CurBlock.body)
    /\ LET o == CurBlock.body[fioOp] IN
        \E e \in OpOutcomes(o, files) :
            IF e = "None"
            THEN /\ files' = ApplyOp(o, files)
                 /\ fioCreated' = IF o.kind = "write" THEN fioCreated \cup {o.file}
                                                      ELSE fioCreated
                 /\ fioOp' = fioOp + 1
                 /\ UNCHANGED <<fioPhase, fioExc, fioOrigin>>
            ELSE /\ fioExc' = e
                 /\ fioOrigin' = "body"
                 /\ fioPhase' = "except"
                 /\ UNCHANGED <<files, fioCreated, fioOp>>
    /\ UNCHANGED <<exceptFio, fioFunc, fioBlock>>

\* the try body ran to its end
FioBodyEnd ==
    /\ scenario = "file_demo"
    /\ fioPhase = "body"
    /\ fioOp > Len(CurBlock.body)
    /\ fioPhase' = "finally"
    /\ fioOp' = 1
    /\ UNCHANGED <<exceptFio, fioFunc, fioBlock, fioExc, fioOrigin, files,
                   fioCreated>>

\* the except clauses: a matching one prints a line and the exception is over
FioExcept ==
    /\ scenario = "file_demo"
    /\ fioPhase = "except"
    /\ fioExc' = IF Matches(fioExc, CurBlock.handlers) THEN "None" ELSE fioExc
    /\ fioPhase' = "finally"
    /\ fioOp' = 1
    /\ UNCHANGED <<exceptFio, fioFunc, fioBlock, fioOrigin, files, fioCreated>>

\* one statement of the finally clause
FioFinally ==
    /\ scenario = "file_demo"
    /\ fioPhase = "finally"
    /\ fioOp <= Len(FinallyBlock(CurBlock))
    /\ LET o == FinallyBlock(CurBlock)[fioOp] IN
        \E e \in OpOutcomes(o, files) :
            IF e = "None"
            THEN /\ files' = ApplyOp(o, files)
                 /\ fioOp' = fioOp + 1
                 /\ UNCHANGED <<fioPhase, fioExc, fioOrigin>>
            ELSE /\ fioExc' = e
                 /\ fioOrigin' = "finally"
                 /\ fioPhase' = "raised"
                 /\ UNCHANGED <<files, fioOp>>
    /\ UNCHANGED <<exceptFio, fioFunc, fioBlock, fioCreated>>

\* the try statement is left: the exception goes on to the caller, or the
\* function goes on to its next try statement, or it returns
FioLeaveTry ==
    /\ scenario = "file_demo"
    /\ fioPhase = "finally"
    /\ fioOp > Len(FinallyBlock(CurBlock))
    /\ IF fioExc # "None"
       THEN fioPhase' = "raised" /\ UNCHANGED fioBlock
       ELSE IF fioBlock < Len(Program(fioFunc))
            THEN fioPhase' = "create" /\ fioBlock' = fioBlock + 1
            ELSE fioPhase' = "returned" /\ UNCHANGED fioBlock
    /\ fioOp' = 1
    /\ UNCHANGED <<exceptFio, fioFunc, fioExc, fioOrigin, files, fioCreated>>

NextFileDemo ==
    \/ FioCreate
    \/ FioCreateFails
    \/ FioBodyOp
    \/ FioBodyEnd
    \/ FioExcept
    \/ FioFinally
    \/ FioLeaveTry

(***************************************************************************)
(* context_managers.py: ManagedResource and demo_exit_stack                *)
(***************************************************************************)
\* the methods class ManagedResource defines
ManagedResourceMethods == {"__init__", "open", "close", "use"}

\* ManagedResource("Database"), ("Cache"), ("FileSystem")
ResourceNames == <<"Database", "Cache", "FileSystem">>

\* ExitStack.enter_context(cm) needs type(cm) to define both methods
SupportsContextManager(methods) ==
    "__enter__" \in methods /\ "__exit__" \in methods

\* what enter_context raises otherwise: TypeError since Python 3.11,
\* AttributeError before
NotAContextManager == {"TypeError", "AttributeError"}

InitExitStack ==
    /\ esPc = "with"
    /\ esNext = 1
    /\ esCallbacks = <<>>
    /\ is_open = [r \in {ResourceNames[i] : i \in 1..3} |-> FALSE]
    /\ esExc = "None"
    /\ esCaught = "None"

\* try: with ExitStack() as stack:
EsEnterWith ==
    /\ scenario = "exit_stack"
    /\ esPc = "with"
    /\ esPc' = "block"
    /\ UNCHANGED <<exceptExitStack, esNext, esCallbacks, is_open, esExc, esCaught>>

\* one statement inside the with block: the three
\* stack.enter_context(ManagedResource(name)) calls, the prints, and
\* raise ValueError("Something went wrong")
EsBlockStatement ==
    /\ scenario = "exit_stack"
    /\ esPc = "block"
    /\ IF esNext <= Len(ResourceNames)
       THEN IF SupportsContextManager(ManagedResourceMethods)
            THEN /\ esCallbacks' = Append(esCallbacks, ResourceNames[esNext])
                 /\ esNext' = esNext + 1
                 /\ UNCHANGED <<esPc, esExc>>
            ELSE /\ esExc' \in NotAContextManager
                 /\ esPc' = "exit"
                 /\ UNCHANGED <<esCallbacks, esNext>>
       ELSE /\ esExc' = "ValueError"
            /\ esPc' = "exit"
            /\ UNCHANGED <<esCallbacks, esNext>>
    /\ UNCHANGED <<exceptExitStack, is_open, esCaught>>

\* ExitStack.__exit__: the registered callbacks run, last entered first; none
\* of them swallows the exception
EsExit ==
    /\ scenario = "exit_stack"
    /\ esPc = "exit"
    /\ IF esCallbacks # <<>>
       THEN /\ esCallbacks' = SubSeq(esCallbacks, 1, Len(esCallbacks) - 1)
            /\ UNCHANGED esPc
       ELSE /\ esPc' = "except"
            /\ UNCHANGED esCallbacks
    /\ UNCHANGED <<exceptExitStack, esNext, is_open, esExc, esCaught>>

\* except ValueError as e: two prints; then print() and return
EsExcept ==
    /\ scenario = "exit_stack"
    /\ esPc = "except"
    /\ IF Matches(esExc, {"ValueError"})
       THEN /\ esCaught' = esExc
            /\ esExc' = "None"
            /\ esPc' = "returned"
       ELSE /\ esPc' = "raised"
            /\ UNCHANGED <<esExc, esCaught>>
    /\ UNCHANGED <<exceptExitStack, esNext, esCallbacks, is_open>>

NextExitStack ==
    \/ EsEnterWith
    \/ EsBlockStatement
    \/ EsExit
    \/ EsExcept

(***************************************************************************)
(* main.py: demo_function, and the demos it runs one after the other.      *)
(* A demo is the sequence of its try statements ("sites"): what is raised  *)
(* inside, and the except clauses the exception meets on its way out,      *)
(* innermost try statement first.                                          *)
(***************************************************************************)
Clause(classes, then) == [catches |-> classes, then |-> then]
Handle(classes) == << Clause(classes, "handle") >>
Site(raises, frames) == [raises |-> raises, frames |-> frames]

\* the first except clause of one try statement that matches decides: the
\* exception is over ("handle"), goes on ("reraise"), or is replaced
RECURSIVE ClauseResult(_, _)
ClauseResult(exc, clauses) ==
    IF clauses = <<>> THEN exc
    ELSE IF Matches(exc, Head(clauses).catches)
         THEN CASE Head(clauses).then = "handle"  -> "None"
                [] Head(clauses).then = "reraise" -> exc
                [] OTHER -> Head(clauses).then
         ELSE ClauseResult(exc, Tail(clauses))

\* the exception that leaves the outermost try statement ("None": none)
RECURSIVE Propagate(_, _)
Propagate(exc, frames) ==
    IF exc = "None" \/ frames = <<>> THEN exc
    ELSE Propagate(ClauseResult(exc, Head(frames)), Tail(frames))

\* int(value) accepts an optional sign followed by digits
Digits == {"0", "1", "2", "3", "4", "5", "6", "7", "8", "9"}
IsIntLiteral(s) ==
    LET body == IF s # <<>> /\ Head(s) \in {"+", "-"} THEN Tail(s) ELSE s
    IN body # <<>> /\ \A i \in 1..Len(body) : body[i] \in Digits

\* ---- basic_exceptions.py
BasicExceptionsDemos ==
    << [ name |-> "demo_try_except", sites |->
           << Site("ZeroDivisionError", << Handle({"ZeroDivisionError", "Exception"}) >>),
              Site("ValueError", << Handle({"ValueError", "Exception"}) >>) >> ],
       [ name |-> "demo_try_except_else", sites |->
           << Site("None", << Handle({"ZeroDivisionError"}) >>),
              Site("ZeroDivisionError", << Handle({"ZeroDivisionError"}) >>) >> ],
       [ name |-> "demo_try_except_finally", sites |->
           << Site("FileNotFoundError",
                   << Handle({"FileNotFoundError", "PermissionError"}) >>) >> ],
       [ name |-> "demo_multiple_exceptions", sites |->
           [ i \in 1..5 |->
               Site(<<"IndexError", "ZeroDivisionError", "ValueError", "TypeError",
                      "None">>[i],
                    << Handle({"TypeError", "IndexError", "ValueError",
                               "ZeroDivisionError", "Exception"}) >>) ] ],
       [ name |-> "demo_exception_hierarchy", sites |-> << >> ],
       [ name |-> "demo_raise_exceptions", sites |->
           [ i \in 1..5 |->
               Site(<<"None", "ValueError", "ValueError", "TypeError", "None">>[i],
                    << Handle({"TypeError", "ValueError"}) >>) ] ],
       [ name |-> "demo_exception_context", sites |->
           << Site("ValueError", << << Clause({"ValueError"}, "reraise") >>,
                                    Handle({"ValueError"}) >>) >> ] >>

\* ---- custom_exceptions.py
CustomExceptionsDemos ==
    << [ name |-> "demo_basic_custom_exceptions", sites |->
           [ i \in 1..4 |->
               Site(IF i < 4 THEN "custom.ValidationError" ELSE "None",
                    << Handle({"custom.ValidationError"}) >>) ] ],
       [ name |-> "demo_exception_hierarchy_usage", sites |->
           [ i \in 1..7 |->
               Site(<<"custom.AuthenticationError", "custom.AuthenticationError",
                      "custom.AuthenticationError", "None", "None", "None",
                      "custom.ResourceNotFoundError">>[i],
                    << Handle({"custom.BusinessLogicError"}) >>) ] ],
       [ name |-> "demo_exception_with_context", sites |->
           [ i \in 1..3 |->
               Site(IF i = 1 THEN "None" ELSE "custom.ConfigurationError",
                    << Handle({"custom.ConfigurationError"}) >>) ] ],
       [ name |-> "demo_exception_chaining", sites |->
           << Site("ValueError",
                   << << Clause({"ValueError"}, "custom.ValidationError") >>,
                      << Clause({"custom.ValidationError"}, "custom.BusinessLogicError") >>,
                      Handle({"custom.BusinessLogicError"}) >>) >> ] >>

\* ---- exception_chaining.py
\* test_config of demo_basic_chaining, in the order of the dict
TestConfig ==
    << <<"port", <<"8", "0", "8", "0">>>>,
       <<"timeout", <<"3", "0", ".", "5">>>>,
       <<"debug", <<"t", "r", "u", "e">>>>,
       <<"invalid_field", <<"n", "o", "t", "_", "p", "a", "r", "s", "e", "a", "b", "l", "e", "_", "v", "a", "l", "u", "e">>>> >>

\* parse_config_value inside load_configuration: int(value) raises ValueError,
\* which parse_config_value replaces by TypeError(...) from e; the loop of
\* load_configuration has `except ValueError`
ParseConfigValueSite(value) ==
    Site(IF IsIntLiteral(value) THEN "None" ELSE "ValueError",
         << << Clause({"ValueError"}, "TypeError") >>,
            Handle({"ValueError"}) >>)

ExceptionChainingDemos ==
    << [ name |-> "demo_basic_chaining", sites |->
           [ i \in 1..Len(TestConfig) |-> ParseConfigValueSite(TestConfig[i][2]) ] ],
       [ name |-> "demo_chaining_with_context", sites |->
           [ i \in 1..3 |->
               Site(<<"None", "KeyError", "ValueError">>[i],
                    << << Clause({"KeyError", "ValueError"},
                                 "chaining.DataProcessingError") >>,
                       Handle({"chaining.DataProcessingError"}) >>) ] ],
       [ name |-> "demo_exception_suppression", sites |->
           [ i \in 1..4 |->
               Site(IF i < 4 THEN "None" ELSE "JSONDecodeError",
                    << << Clause({"JSONDecodeError"}, "ValueError") >>,
                       << Clause({"ValueError"}, "ValueError") >>,
                       << Clause({"ValueError"}, "ValueError") >>,
                       Handle({"ValueError"}) >>) ] ],
       [ name |-> "demo_nested_exception_handling", sites |->
           [ i \in 1..5 |->
               IF i = 5
               THEN Site("chaining.DataProcessingError",
                         << Handle({"chaining.DataProcessingError"}) >>)
               ELSE Site(<<"None", "chaining.ValidationError", "ValueError", "None">>[i],
                         << << Clause({"chaining.ValidationError"}, "reraise"),
                               Clause({"ValueError"}, "chaining.TransformationError") >>,
                            Handle({"chaining.DataProcessingError"}) >>) ] ],
       [ name |-> "demo_exception_groups", sites |->
           [ i \in 1..6 |->
               IF i = 6
               THEN Site("chaining.MultipleErrorsException",
                         << Handle({"chaining.MultipleErrorsException"}) >>)
               ELSE Site(<<"None", "ValueError", "ValueError", "ValueError", "None">>[i],
                         << Handle({"ValueError"}) >>) ] ] >>

\* ---- context_managers.py
ContextManagersDemos ==
    << [ name |-> "demo_file_context_managers", sites |->
           << Site("None", << Handle({"FileNotFoundError", "PermissionError"}) >>),
              Site("FileNotFoundError", << Handle({"FileNotFoundError"}) >>) >> ],
       [ name |-> "demo_exception_suppression", sites |->
           << Site("FileNotFoundError", << Handle({"FileNotFoundError"}) >>),
              Site("ValueError", << Handle({"ValueError", "TypeError"}) >>),
              Site("ValueError", << Handle({"KeyError"}), Handle({"ValueError"}) >>) >> ],
       [ name |-> "demo_custom_context_managers", sites |->
           << Site("None", << << Clause({"Exception"}, "reraise") >> >>),
              Site("ValueError", << << Clause({"Exception"}, "reraise") >>,
                                    Handle({"ValueError"}) >>),
              Site("None", << << Clause({"Exception"}, "reraise") >> >>),
              Site("RuntimeError", << << Clause({"Exception"}, "reraise") >>,
                                      Handle({"RuntimeError"}) >>) >> ],
       [ name |-> "demo_exit_stack", sites |->
           << Site(IF SupportsContextManager(ManagedResourceMethods)
                   THEN "ValueError" ELSE "TypeError",
                   << Handle({"ValueError"}) >>) >> ],
       [ name |-> "demo_contextlib_utilities", sites |->
           << Site("KeyError", << Handle({"Exception"}) >>) >> ] >>

\* the demos that follow; their try statements are not listed
Unlisted(names) == [ i \in 1..Len(names) |-> [ name |-> names[i], sites |-> << >> ] ]

\* demo_function: demo_error_exception() and then demo_concurrency(), each of
\* which calls its demos in sequence; none of the callers has a try statement
DemoFunctionCalls ==
    BasicExceptionsDemos \o CustomExceptionsDemos \o ExceptionChainingDemos
        \o ContextManagersDemos
        \o Unlisted(<<"demo_logging_exceptions", "demo_best_practices",
                      "demo_threading", "demo_asyncio", "demo_multiprocessing",
                      "demo_concurrent_futures">>)

InitDemoFunction ==
    /\ dfLeaf = 1
    /\ dfSite = 1
    /\ dfPc = "running"
    /\ dfExc = "None"

\* the next try statement of the running demo: what it lets out, if anything,
\* passes demo_error_exception and demo_function unhandled
DfRunSite ==
    /\ scenario = "demo_function"
    /\ dfPc = "running"
    /\ dfSite <= Len(DemoFunctionCalls[dfLeaf].sites)
    /\ LET site == DemoFunctionCalls[dfLeaf].sites[dfSite]
           out == Propagate(site.raises, site.frames)
       IN IF out = "None"
          THEN dfSite' = dfSite + 1 /\ UNCHANGED <<dfPc, dfExc>>
          ELSE dfExc' = out /\ dfPc' = "raised" /\ UNCHANGED dfSite
    /\ UNCHANGED <<exceptDemoFunction, dfLeaf>>

\* the running demo returns: the next one is called, or demo_function returns
DfDemoReturns ==
    /\ scenario = "demo_function"
    /\ dfPc = "running"
    /\ dfSite > Len(DemoFunctionCalls[dfLeaf].sites)
    /\ IF dfLeaf < Len(DemoFunctionCalls)
       THEN dfLeaf' = dfLeaf + 1 /\ dfSite' = 1 /\ UNCHANGED dfPc
       ELSE dfPc' = "returned" /\ UNCHANGED <<dfLeaf, dfSite>>
    /\ UNCHANGED <<exceptDemoFunction, dfExc>>

NextDemoFunction ==
    \/ DfRunSite
    \/ DfDemoReturns

(***************************************************************************)
(* best_practices.py: the wrapper made by retry_with_backoff               *)
(***************************************************************************)
\* what one call func(*args, **kwargs) does: it returns, or raises an
\* Exception, or raises a BaseException that is no Exception
FuncOutcomes == {"return", "ValueError", "KeyboardInterrupt"}

\* the values of max_retries the decorator is given
MaxRetriesValues == (0 - RetryBound) .. RetryBound

InitRetry ==
    /\ attempt = 0
    /\ last_exception = "None"
    /\ rtPc = "for"
    /\ rtExit = "None"
    /\ rtExc = "None"

\* for attempt in range(max_retries + 1): the next value, or the loop is over
RtFor ==
    /\ scenario = "retry"
    /\ rtPc = "for"
    /\ rtPc' = IF attempt < max_retries + 1 THEN "try" ELSE "after_loop"
    /\ UNCHANGED <<exceptRetry, max_retries, attempt, last_exception, rtExit, rtExc>>

\* try: return func(*args, **kwargs)
\* except Exception as e: last_exception = e; if attempt == max_retries: raise
RtTry ==
    /\ scenario = "retry"
    /\ rtPc = "try"
    /\ \E out \in FuncOutcomes :
          IF out = "return"
          THEN /\ rtPc' = "left"
               /\ rtExit' = "return"
               /\ UNCHANGED <<last_exception, rtExc>>
          ELSE IF Matches(out, {"Exception"})
          THEN /\ last_exception' = out
               /\ IF attempt = max_retries
                  THEN rtPc' = "left" /\ rtExit' = "raise in loop" /\ rtExc' = out
                  ELSE rtPc' = "sleep" /\ UNCHANGED <<rtExit, rtExc>>
          ELSE /\ rtPc' = "left"
               /\ rtExit' = "unhandled"
               /\ rtExc' = out
               /\ UNCHANGED last_exception
    /\ UNCHANGED <<exceptRetry, max_retries, attempt>>

\* delay = min(...); logging.warning(...); time.sleep(delay); next attempt
RtSleep ==
    /\ scenario = "retry"
    /\ rtPc = "sleep"
    /\ attempt' = attempt + 1
    /\ rtPc' = "for"
    /\ UNCHANGED <<exceptRetry, max_retries, last_exception, rtExit, rtExc>>

\* raise last_exception, after the loop; `raise None` is a TypeError
RtRaiseAfterLoop ==
    /\ scenario = "retry"
    /\ rtPc = "after_loop"
    /\ rtPc' = "left"
    /\ rtExit' = "raise after loop"
    /\ rtExc' = IF last_exception = "None" THEN "TypeError" ELSE last_exception
    /\ UNCHANGED <<exceptRetry, max_retries, attempt, last_exception>>

NextRetry ==
    \/ RtFor
    \/ RtTry
    \/ RtSleep
    \/ RtRaiseAfterLoop

(***************************************************************************)
(* watch.py and scripts/watch.py: the auto-reload file watcher.  main()    *)
(* runs in the main thread; the observer thread dispatches the events of   *)
(* its queue one after the other to CodeChangeHandler.on_modified.         *)
(***************************************************************************)
WatchScripts == {"watch.py", "scripts/watch.py"}

\* self.debounce_seconds = 1
debounce_seconds == 1

\* the events of the model: event.is_directory and event.src_path
WatchEvents ==
    { [is_directory |-> TRUE,  src_path |-> <<"s", "r", "c">>],
      [is_directory |-> FALSE, src_path |-> <<"a", ".", "p", "y">>],
      [is_directory |-> FALSE, src_path |-> <<"a", ".", "p", "y", "c">>] }

\* str.endswith
EndsWith(s, suffix) ==
    /\ Len(s) >= Len(suffix)
    /\ SubSeq(s, Len(s) - Len(suffix) + 1, Len(s)) = suffix

\* current_time - self.last_run < self.debounce_seconds
Debounced(current_time, last) ==
    current_time - last < debounce_seconds * TicksPerSecond

InitWatcher ==
    /\ now = StartTime
    /\ last_run = 0
    /\ observer_alive = FALSE
    /\ event_queue = <<>>
    /\ eventsSent = 0
    /\ handlerPc = "idle"
    /\ runBegins = <<>>

\* time passes
Tick ==
    /\ scenario = "watcher"
    /\ now < StartTime + MaxTicks
    /\ now' = now + 1
    /\ UNCHANGED <<exceptWatcher, wtScript, last_run, mainPc, observer_alive,
                   event_queue, eventsSent, handlerPc, runBegins>>

\* main(): event_handler.run_application() is entered; last_run is not touched
MainRunBegin ==
    /\ scenario = "watcher"
    /\ mainPc = "startup_run"
    /\ runBegins' = Append(runBegins, now)
    /\ mainPc' = "in_run"
    /\ UNCHANGED <<exceptWatcher, wtScript, now, last_run, observer_alive,
                   event_queue, eventsSent, handlerPc>>

\* main(): subprocess.run returned (or timed out) and run_application returns.
\* watch.py starts the observer next; scripts/watch.py has started it before.
MainRunEnd ==
    /\ scenario = "watcher"
    /\ mainPc = "in_run"
    /\ mainPc' = IF wtScript = "watch.py" THEN "observer_start" ELSE "loop"
    /\ UNCHANGED <<exceptWatcher, wtScript, now, last_run, observer_alive,
                   event_queue, eventsSent, handlerPc, runBegins>>

\* main(): observer.schedule(...); observer.start()
ObserverStart ==
    /\ scenario = "watcher"
    /\ mainPc = "observer_start"
    /\ observer_alive' = TRUE
    /\ mainPc' = IF wtScript = "watch.py" THEN "loop" ELSE "startup_run"
    /\ UNCHANGED <<exceptWatcher, wtScript, now, last_run, event_queue,
                   eventsSent, handlerPc, runBegins>>

\* a file or directory below a watched path is modified
FileModified ==
    /\ scenario = "watcher"
    /\ observer_alive
    /\ eventsSent < MaxEvents
    /\ \E ev \in WatchEvents : event_queue' = Append(event_queue, ev)
    /\ eventsSent' = eventsSent + 1
    /\ UNCHANGED <<exceptWatcher, wtScript, now, last_run, mainPc,
                   observer_alive, handlerPc, runBegins>>

\* CodeChangeHandler.on_modified(event) up to its call of run_application
OnModified ==
    /\ scenario = "watcher"
    /\ handlerPc = "idle"
    /\ event_queue # <<>>
    /\ event_queue' = Tail(event_queue)
    /\ LET event == Head(event_queue)
       IN IF \/ event.is_directory
             \/ ~EndsWith(event.src_path, <<".", "p", "y">>)
             \/ Debounced(now, last_run)
          THEN UNCHANGED <<last_run, handlerPc, runBegins>>
          ELSE /\ last_run' = now
               /\ runBegins' = Append(runBegins, now)
               /\ handlerPc' = "running"
    /\ UNCHANGED <<exceptWatcher, wtScript, now, mainPc, observer_alive,
                   eventsSent>>

\* run_application returns in the observer thread, and on_modified with it
HandlerRunEnd ==
    /\ scenario = "watcher"
    /\ handlerPc = "running"
    /\ handlerPc' = "idle"
    /\ UNCHANGED <<exceptWatcher, wtScript, now, last_run, mainPc,
                   observer_alive, event_queue, eventsSent, runBegins>>

NextWatcher ==
    \/ Tick
    \/ MainRunBegin
    \/ MainRunEnd
    \/ ObserverStart
    \/ FileModified
    \/ OnModified
    \/ HandlerRunEnd

(***************************************************************************)
(* advanced_features.py: SingletonMeta and DatabaseConnection              *)
(***************************************************************************)
\* the arguments of a call: host and port, "localhost" and 5432 when omitted
Hosts == {"localhost", "server1", "server2"}
Ports == {5432, 3306}

\* cls in cls._instances
NoInstanceSeen(cls, inst) == FALSE
HasInstance(cls, inst) == cls \in DOMAIN inst

InitSingleton ==
    /\ instances = << >>
    /\ objects = << >>
    /\ initRuns = 0
    /\ sgCalls = << >>
    /\ sgReturned = << >>

\* SingletonMeta.__call__(DatabaseConnection, host, port): the first call makes
\* the object (type.__call__ runs __init__) and stores it; every call returns
\* cls._instances[cls]
DatabaseConnectionCall ==
    /\ scenario = "singleton"
    /\ Len(sgCalls) < MaxCalls
    /\ \E host \in Hosts, port \in Ports :
        LET cls == "DatabaseConnection"
            new == Len(objects) + 1
            made == ~HasInstance(cls, instances)
            inst == IF made THEN (cls :> new) @@ instances ELSE instances
        IN /\ objects' = IF made
                         THEN Append(objects, [host |-> host, port |-> port,
                                               connected |-> FALSE])
                         ELSE objects
           /\ initRuns' = IF made THEN initRuns + 1 ELSE initRuns
           /\ instances' = inst
           /\ sgCalls' = Append(sgCalls, [host |-> host, port |-> port])
           /\ sgReturned' = Append(sgReturned, inst[cls])
    /\ UNCHANGED exceptSingleton

\* db.connect() and db.disconnect() on an object a call returned
ConnectDisconnect ==
    /\ scenario = "singleton"
    /\ \E i \in 1..Len(sgReturned), c \in BOOLEAN :
          /\ objects[sgReturned[i]].connected # c
          /\ objects' = [objects EXCEPT ![sgReturned[i]].connected = c]
    /\ UNCHANGED <<exceptSingleton, instances, initRuns, sgCalls, sgReturned>>

NextSingleton ==
    \/ DatabaseConnectionCall
    \/ ConnectDisconnect

(***************************************************************************)
(* inputOutput/utils.py: read_config_file and write_log_entry              *)
(***************************************************************************)
UtilsFunctions == {"read_config_file", "write_log_entry"}

\* the JSON values a file can hold, and what json.load makes of each
JsonKinds == {"object", "array", "string", "number", "true", "null"}
PyType(kind) ==
    CASE kind = "object" -> "dict"
      [] kind = "array"  -> "list"
      [] kind = "string" -> "str"
      [] kind = "number" -> "int"
      [] kind = "true"   -> "bool"
      [] kind = "null"   -> "NoneType"

\* what the path names: nothing, a directory, or a file with its content
\* ("malformed": text that is no JSON; "binary": bytes that are no UTF-8)
PathStates ==
    {[kind |-> "missing"], [kind |-> "directory"]}
        \cup [kind : {"file"}, content : JsonKinds \cup {"malformed", "binary"}]

\* isinstance(data, dict)
AnyType(type) == TRUE
IsDict(type) == type = "dict"

\* the try body of read_config_file: the exception it raises and the value it
\* returns.  The operating system may refuse to open any existing path.
ReadConfigOutcomes(path) ==
    IF path.kind = "missing" THEN {[exc |-> "None", value |-> "None"]}
    ELSE {[exc |-> "PermissionError", value |-> "unset"]} \cup
         IF path.kind = "directory"
         THEN {[exc |-> "IsADirectoryError", value |-> "unset"]}
         ELSE CASE path.content = "binary" ->
                     {[exc |-> "UnicodeDecodeError", value |-> "unset"]}
                [] path.content = "malformed" ->
                     {[exc |-> "JSONDecodeError", value |-> "unset"]}
                [] OTHER ->
                     {[exc |-> "None",
                       value |-> IF IsDict(PyType(path.content))
                                 THEN PyType(path.content) ELSE "None"]}

\* the try body of write_log_entry: open(log_path, "a") creates a missing
\* file; opening or writing may fail
WriteLogOutcomes(path) ==
    IF path.kind = "directory"
    THEN {[exc |-> "IsADirectoryError", value |-> "unset"]}
    ELSE {[exc |-> "None", value |-> "True"],
          [exc |-> "PermissionError", value |-> "unset"],
          [exc |-> "OSError", value |-> "unset"]}

InitUtils ==
    /\ utPc = "try"
    /\ utExc = "None"
    /\ utCaught = "None"
    /\ utResult = "unset"

\* try: ... of either function
UtilsTry ==
    /\ scenario = "utils"
    /\ utPc = "try"
    /\ \E out \in IF utFunc = "read_config_file" THEN ReadConfigOutcomes(utPath)
                  ELSE WriteLogOutcomes(utPath) :
          /\ utExc' = out.exc
          /\ utResult' = out.value
          /\ utPc' = IF out.exc = "None" THEN "left" ELSE "except"
          /\ utPath' = IF utFunc = "write_log_entry" /\ out.exc = "None"
                       THEN [kind |-> "file", content |-> "malformed"]
                       ELSE utPath
    /\ UNCHANGED <<exceptUtils, utFunc, utCaught>>

\* except json.JSONDecodeError / except Exception: print and return None
\* (read_config_file) or False (write_log_entry); anything else goes on
UtilsExcept ==
    /\ scenario = "utils"
    /\ utPc = "except"
    /\ utPc' = "left"
    /\ IF Matches(utExc, {"JSONDecodeError", "Exception"})
       THEN /\ utCaught' = utExc
            /\ utExc' = "None"
            /\ utResult' = IF utFunc = "read_config_file" THEN "None" ELSE "False"
       ELSE UNCHANGED <<utExc, utCaught, utResult>>
    /\ UNCHANGED <<exceptUtils, utFunc, utPath>>

NextUtils ==
    \/ UtilsTry
    \/ UtilsExcept

(***************************************************************************)
(* main.py: main() and the package demo drivers                            *)
(***************************************************************************)
\* the demo driver of every package
Drivers == {"demo_error_exception", "demo_classes", "demo_concurrency",
            "demo_input_output"}

\* the calls in the body of demo_function (`# demo_classes()` is a comment)
DemoFunctionBody == <<"demo_error_exception", "demo_concurrency">>

\* what each driver runs; neither has a try statement of its own
DriverCalls(driver) ==
    IF driver = "demo_error_exception"
    THEN BasicExceptionsDemos \o CustomExceptionsDemos \o ExceptionChainingDemos
            \o ContextManagersDemos
            \o Unlisted(<<"demo_logging_exceptions", "demo_best_practices">>)
    ELSE Unlisted(<<"demo_threading", "demo_asyncio", "demo_multiprocessing",
                    "demo_concurrent_futures">>)

\* the first exception that leaves one of the try statements, run in order
RECURSIVE FirstEscaping(_)
FirstEscaping(sites) ==
    IF sites = << >> THEN "None"
    ELSE LET out == Propagate(Head(sites).raises, Head(sites).frames)
         IN IF out # "None" THEN out ELSE FirstEscaping(Tail(sites))

\* the exception that leaves a driver: that of the first demo that lets one out
RECURSIVE DriverOutcome(_)
DriverOutcome(demos) ==
    IF demos = << >> THEN "None"
    ELSE LET out == FirstEscaping(Head(demos).sites)
         IN IF out # "None" THEN out ELSE DriverOutcome(Tail(demos))

InitMain ==
    /\ mnPc = "main"
    /\ mnStatement = 1
    /\ invocations = [d \in Drivers |-> 0]
    /\ mnExc = "None"

\* main(): the prints, then demo_function()
MainCallsDemoFunction ==
    /\ scenario = "main"
    /\ mnPc = "main"
    /\ mnPc' = "demo_function"
    /\ UNCHANGED <<exceptMain, mnStatement, invocations, mnExc>>

\* the next call of demo_function's body; an exception out of the driver
\* leaves demo_function and main(), which have no try statement
DemoFunctionStatement ==
    /\ scenario = "main"
    /\ mnPc = "demo_function"
    /\ LET driver == DemoFunctionBody[mnStatement]
           out == DriverOutcome(DriverCalls(driver))
       IN /\ invocations' = [invocations EXCEPT ![driver] = @ + 1]
          /\ mnExc' = out
          /\ IF out # "None"
             THEN mnPc' = "raised" /\ UNCHANGED mnStatement
             ELSE IF mnStatement < Len(DemoFunctionBody)
             THEN mnStatement' = mnStatement + 1 /\ UNCHANGED mnPc
             ELSE mnPc' = "returned" /\ UNCHANGED mnStatement
    /\ UNCHANGED exceptMain

NextMain ==
    \/ MainCallsDemoFunction
    \/ DemoFunctionStatement

(***************************************************************************)
(* inheritance.py: Animal, Flyable, Swimmable, Duck                        *)
(***************************************************************************)
\* the bases of each class statement
ClassBases ==
    [ object    |-> << >>,
      Animal    |-> <<"object">>,
      Flyable   |-> <<"object">>,
      Swimmable |-> <<"object">>,
      Duck      |-> <<"Animal", "Flyable", "Swimmable">> ]

\* Python's C3 linearisation: the next class is the first head that is in no
\* other list's tail
RECURSIVE C3Merge(_)
C3Merge(lists) ==
    LET rest == SelectSeq(lists, LAMBDA l : l # << >>)
        good == { i \in 1..Len(rest) :
                    \A k \in 1..Len(rest) :
                        \A n \in 2..Len(rest[k]) : rest[k][n] # Head(rest[i]) }
    IN IF rest = << >> \/ good = {} THEN << >>
       ELSE LET first == CHOOSE i \in good : \A k \in good : i <= k
                head == Head(rest[first])
            IN <<head>> \o C3Merge([ k \in 1..Len(rest) |->
                                       IF Head(rest[k]) = head THEN Tail(rest[k])
                                       ELSE rest[k] ])

\* cls.__mro__
RECURSIVE Mro(_)
Mro(cls) ==
    <<cls>> \o C3Merge([ i \in 1..Len(ClassBases[cls]) |-> Mro(ClassBases[cls][i]) ]
                          \o << ClassBases[cls] >>)

\* each class's __init__: whether it calls super().__init__(...), which it
\* does before anything else, and the attributes it then sets
InitMethods ==
    [ object    |-> [super |-> FALSE, sets |-> << >>],
      Animal    |-> [super |-> FALSE,
                     sets |-> [name |-> "Donald", species |-> "Duck", alive |-> TRUE]],
      Flyable   |-> [super |-> TRUE, sets |-> [can_fly |-> TRUE, altitude |-> 0]],
      Swimmable |-> [super |-> TRUE, sets |-> [can_swim |-> TRUE, depth |-> 0]],
      Duck      |-> [super |-> TRUE, sets |-> << >>] ]

\* super().__init__ inside cls, for an object of class Duck
SuperOf(cls) ==
    LET mro == Mro("Duck")
        at == CHOOSE i \in 1..Len(mro) : mro[i] = cls
    IN mro[at + 1]

\* duck.fly(), duck.swim(), duck.dabble(), duck.land(), duck.surface()
DuckCalls ==
    << [altitude |-> 1000], [depth |-> 10], << >>, [altitude |-> 0], [depth |-> 0] >>

\* hasattr(obj, name) and getattr(obj, name)
HasTruthy(dict, name) == name \in DOMAIN dict /\ dict[name] = TRUE

InitDuck ==
    /\ dkPc = "construct"
    /\ dkStack = << >>
    /\ dkRan = {}
    /\ attrs = << >>
    /\ dkNext = 1
    /\ dkReport = << >>

\* duck = Duck("Donald"): Duck.__init__ is entered
DuckNew ==
    /\ scenario = "duck"
    /\ dkPc = "construct"
    /\ dkStack' = <<"Duck">>
    /\ dkPc' = "init"
    /\ UNCHANGED <<exceptDuck, dkRan, attrs, dkNext, dkReport>>

\* an __init__ that starts with super().__init__(...) enters the next one
InitCallsSuper ==
    /\ scenario = "duck"
    /\ dkPc = "init"
    /\ LET cls == dkStack[Len(dkStack)]
       IN /\ InitMethods[cls].super
          /\ SuperOf(cls) \notin dkRan
          /\ dkStack' = Append(dkStack, SuperOf(cls))
    /\ UNCHANGED <<exceptDuck, dkPc, dkRan, attrs, dkNext, dkReport>>

\* the rest of the innermost __init__ runs and it returns; when Duck.__init__
\* returns the object is constructed
InitBody ==
    /\ scenario = "duck"
    /\ dkPc = "init"
    /\ LET cls == dkStack[Len(dkStack)]
       IN /\ InitMethods[cls].super => SuperOf(cls) \in dkRan
          /\ attrs' = InitMethods[cls].sets @@ attrs
          /\ dkRan' = dkRan \cup {cls}
    /\ dkStack' = SubSeq(dkStack, 1, Len(dkStack) - 1)
    /\ dkPc' = IF Len(dkStack) = 1 THEN "constructed" ELSE "init"
    /\ UNCHANGED <<exceptDuck, dkNext, dkReport>>

\* the method calls of demo_multiple_inheritance, then its two reports
DuckDemoStep ==
    /\ scenario = "duck"
    /\ dkPc \in {"constructed", "calls"}
    /\ IF dkNext <= Len(DuckCalls)
       THEN /\ attrs' = DuckCalls[dkNext] @@ attrs
            /\ dkNext' = dkNext + 1
            /\ dkPc' = "calls"
            /\ UNCHANGED dkReport
       ELSE /\ dkReport' = [can_fly  |-> HasTruthy(attrs, "can_fly"),
                            can_swim |-> HasTruthy(attrs, "can_swim")]
            /\ dkPc' = "returned"
            /\ UNCHANGED <<attrs, dkNext>>
    /\ UNCHANGED <<exceptDuck, dkStack, dkRan>>

NextDuck ==
    \/ DuckNew
    \/ InitCallsSuper
    \/ InitBody
    \/ DuckDemoStep

(***************************************************************************)
(* multiprocessing_demo.py: demo_multiprocessing                           *)
(***************************************************************************)
\* the calls of the try body
SubDemos == <<"demo_basic_processes", "demo_process_communication",
              "demo_process_pools", "demo_shared_memory",
              "demo_cpu_bound_comparison", "demo_pipe_communication">>

\* a sub-demo returns ("None") or raises an Exception: a function that cannot
\* be pickled, a process that cannot be started, a broken pipe, ...
SubDemoOutcomes == {"None", "AttributeError", "OSError", "RuntimeError", "ValueError"}

\* except Exception as e:
OnlyValueError == {"ValueError"}
ExceptClause == {"Exception"}

InitMpDemo ==
    /\ mdPc = "try"
    /\ mdRan = << >>
    /\ mdExc = "None"
    /\ mdCaught = "None"
    /\ futuresCalled = FALSE

\* the next call of the try body
SubDemoCall ==
    /\ scenario = "demo_multiprocessing"
    /\ mdPc = "try"
    /\ \E out \in SubDemoOutcomes :
          IF out = "None"
          THEN /\ mdRan' = Append(mdRan, SubDemos[Len(mdRan) + 1])
               /\ mdPc' = IF Len(mdRan) + 1 = Len(SubDemos) THEN "returned" ELSE "try"
               /\ UNCHANGED mdExc
          ELSE /\ mdExc' = out
               /\ mdPc' = "except"
               /\ UNCHANGED mdRan
    /\ UNCHANGED <<exceptMpDemo, mdCaught, futuresCalled>>

\* the except clause prints the message and the function returns; an
\* exception the clause does not match leaves demo_multiprocessing
MpDemoExcept ==
    /\ scenario = "demo_multiprocessing"
    /\ mdPc = "except"
    /\ IF Matches(mdExc, ExceptClause)
       THEN mdCaught' = mdExc /\ mdExc' = "None" /\ mdPc' = "returned"
       ELSE mdPc' = "raised" /\ UNCHANGED <<mdExc, mdCaught>>
    /\ UNCHANGED <<exceptMpDemo, mdRan, futuresCalled>>

\* demo_concurrency: demo_multiprocessing() has returned, and
\* demo_concurrent_futures() is called
ConcurrentFuturesCalled ==
    /\ scenario = "demo_multiprocessing"
    /\ mdPc = "returned"
    /\ ~futuresCalled
    /\ futuresCalled' = TRUE
    /\ UNCHANGED <<exceptMpDemo, mdPc, mdRan, mdExc, mdCaught>>

NextMpDemo ==
    \/ SubDemoCall
    \/ MpDemoExcept
    \/ ConcurrentFuturesCalled

(***************************************************************************)
(* basic_classes.py: BankAccount                                           *)
(***************************************************************************)
\* the amounts of the calls: zero and a negative one among them
Amounts == (0 - 1) .. MaxAmount

\* what a call leaves in bcLast
Called(op, amount, result) ==
    [op |-> op, amount |-> amount, result |-> result,
     balance |-> bcBalance, history |-> bcLists[1]]

\* amount > self._balance
AlwaysEnough(amount, bal) == FALSE
InsufficientFunds(amount, bal) == amount > bal

InitBasicAccount ==
    /\ bcLists = << << >> >>
    /\ bcReturned = 0
    /\ bcCalls = 0
    /\ bcSucceeded = 0
    /\ bcLast = [op |-> "__init__"]

\* account.deposit(amount)
BasicDeposit ==
    /\ scenario = "basic_account"
    /\ bcCalls < MaxOperations
    /\ bcCalls' = bcCalls + 1
    /\ \E amount \in Amounts :
          IF amount <= 0
          THEN /\ bcLast' = Called("deposit", amount, "ValueError")
               /\ UNCHANGED <<bcBalance, bcLists, bcSucceeded>>
          ELSE /\ bcBalance' = bcBalance + amount
               /\ bcLists' = [bcLists EXCEPT ![1] = Append(@, <<"Deposited", amount>>)]
               /\ bcSucceeded' = bcSucceeded + 1
               /\ bcLast' = Called("deposit", amount, "None")
    /\ UNCHANGED <<exceptBasicAccount, bcReturned>>

\* account.withdraw(amount)
BasicWithdraw ==
    /\ scenario = "basic_account"
    /\ bcCalls < MaxOperations
    /\ bcCalls' = bcCalls + 1
    /\ \E amount \in Amounts :
          IF amount <= 0
          THEN /\ bcLast' = Called("withdraw", amount, "ValueError")
               /\ UNCHANGED <<bcBalance, bcLists, bcSucceeded>>
          ELSE IF InsufficientFunds(amount, bcBalance)
          THEN /\ bcLast' = Called("withdraw", amount, "False")
               /\ UNCHANGED <<bcBalance, bcLists, bcSucceeded>>
          ELSE /\ bcBalance' = bcBalance - amount
               /\ bcLists' = [bcLists EXCEPT ![1] = Append(@, <<"Withdrew", amount>>)]
               /\ bcSucceeded' = bcSucceeded + 1
               /\ bcLast' = Called("withdraw", amount, "True")
    /\ UNCHANGED <<exceptBasicAccount, bcReturned>>

\* account.get_transaction_history(): self._transactions.copy() is a new list
GetTransactionHistory ==
    /\ scenario = "basic_account"
    /\ bcCalls < MaxOperations
    /\ bcCalls' = bcCalls + 1
    /\ bcLists' = Append(bcLists, bcLists[1])
    /\ bcReturned' = Len(bcLists) + 1
    /\ bcLast' = Called("get_transaction_history", 0, "list")
    /\ UNCHANGED <<exceptBasicAccount, bcBalance, bcSucceeded>>

\* the caller changes the list it was given: it appends to it or clears it
CallerMutatesList ==
    /\ scenario = "basic_account"
    /\ bcReturned # 0
    /\ bcCalls < MaxOperations
    /\ bcCalls' = bcCalls + 1
    /\ \E new \in {Append(bcLists[bcReturned], <<"Forged", 0>>), << >>} :
          /\ new # bcLists[bcReturned]
          /\ bcLists' = [bcLists EXCEPT ![bcReturned] = new]
    /\ bcLast' = Called("mutate", 0, "None")
    /\ UNCHANGED <<exceptBasicAccount, bcBalance, bcReturned, bcSucceeded>>

NextBasicAccount ==
    \/ BasicDeposit
    \/ BasicWithdraw
    \/ GetTransactionHistory
    \/ CallerMutatesList

(***************************************************************************)
(* The specification                                                       *)
(***************************************************************************)
Scenarios == {"thread_counter", "async_counter", "shared_memory", "bank_demo",
              "file_demo", "exit_stack", "demo_function", "retry",
              "watcher",
              "singleton",
              "utils",
              "main",
              "duck",
              "demo_multiprocessing",
              "basic_account"}

\* the demos that are not running stay as constructed
Idle ==
    /\ InitThreadCounter
    /\ InitAsyncCounter
    /\ InitSharedMemory
    /\ InitProducerConsumer
    /\ InitFileDemo
    /\ InitExitStack
    /\ InitDemoFunction
    /\ InitRetry
    /\ InitWatcher
    /\ InitSingleton
    /\ InitUtils
    /\ InitMain
    /\ InitDuck
    /\ InitMpDemo
    /\ InitBasicAccount

Init ==
    /\ scenario \in Scenarios
    /\ Idle
    /\ InitBankDemo
    /\ scenario # "bank_demo" => acctId["account1"] = 1
    /\ fioFunc \in FileDemos
    /\ scenario # "file_demo" => fioFunc = "demo_advanced_io"
    /\ max_retries \in MaxRetriesValues
    /\ scenario # "retry" => max_retries = 0
    /\ wtScript \in WatchScripts
    /\ scenario # "watcher" => wtScript = "watch.py"
    /\ mainPc = IF wtScript = "watch.py" THEN "startup_run" ELSE "observer_start"
    /\ utFunc \in UtilsFunctions
    /\ utPath \in PathStates
    /\ scenario # "utils" => (utFunc = "read_config_file" /\ utPath.kind = "missing")
    /\ bcBalance \in 0..MaxInitialBalance
    /\ scenario # "basic_account" => bcBalance = 0

Next ==
    \/ NextThreadCounter
    \/ NextAsyncCounter
    \/ NextSharedMemory
    \/ NextBankDemo
    \/ NextFileDemo
    \/ NextExitStack
    \/ NextDemoFunction
    \/ NextRetry
    \/ NextWatcher
    \/ NextSingleton
    \/ NextUtils
    \/ NextMain
    \/ NextDuck
    \/ NextMpDemo
    \/ NextBasicAccount

Spec == Init /\ [][Next]_vars

\* Concurrent transfers. Every thread that can take a step is eventually
\* scheduled by the operating system.
InitTransferSpec ==
    /\ scenario = "transfer"
    /\ Idle
    /\ InitTransfers
    /\ fioFunc = "demo_advanced_io"
    /\ max_retries = 0
    /\ bcBalance = 0
    /\ utFunc = "read_config_file"
    /\ utPath = [kind |-> "missing"]
    /\ wtScript = "watch.py"
    /\ mainPc = "startup_run"

SpecTransfer ==
    /\ InitTransferSpec
    /\ [][NextTransfers]_vars
    /\ \A t \in TransferThreads : WF_vars(TransferStep(t))

\* One ProducerConsumer with its threads running, under the same scheduling.
InitProducerConsumerSpec ==
    /\ scenario = "producer_consumer"
    /\ Idle
    /\ InitBankDemo
    /\ acctId["account1"] = 1
    /\ fioFunc = "demo_advanced_io"
    /\ max_retries = 0
    /\ bcBalance = 0
    /\ utFunc = "read_config_file"
    /\ utPath = [kind |-> "missing"]
    /\ wtScript = "watch.py"
    /\ mainPc = "startup_run"

SpecProducerConsumer ==
    /\ InitProducerConsumerSpec
    /\ [][NextProducerConsumer]_vars
    /\ \A p \in Producers : WF_vars(ProducerStep(p))
    /\ \A c \in Consumers : WF_vars(ConsumerStep(c))

(***************************************************************************)
(* Claims                                                                  *)
(***************************************************************************)
\* C2: after all increment_counter threads are joined, get_value() returns
\* threads * increments (100 for the 5 x 20 of the source): no increment is lost.
C2_NoLostIncrement ==
    (scenario = "thread_counter" /\ tcFinal # -1)
        => tcFinal = NumThreads * IncrementsPerThread

\* C2 witness: every thread was joined and get_value() returned the full count.
C2_Witness ==
    /\ scenario = "thread_counter"
    /\ tcFinal = NumThreads * IncrementsPerThread
    /\ tcJoined = NumThreads

\* C3: after asyncio.gather has run every increment_counter coroutine to its end,
\* get_value() returns coroutines * increments (100 for the 5 x 20 of the source),
\* although increment() is suspended between its read and its write.
C3_AsyncNoLostIncrement ==
    (scenario = "async_counter" /\ asFinal # -1)
        => asFinal = NumTasks * IncrementsPerTask

\* C3 witness: the gathered coroutines are done and the final value was read.
C3_Witness ==
    /\ scenario = "async_counter"
    /\ asFinal = NumTasks * IncrementsPerTask
    /\ \A t \in Tasks : taskPc[t] = "done"

\* C4: after all increment_shared_counter processes are joined, the shared
\* value is processes * times (100 for the 4 x 25 of the source).
C4_SharedNoLostIncrement ==
    (scenario = "shared_memory" /\ mpFinal # -1)
        => mpFinal = NumProcesses * TimesPerProcess

\* C4 witness: every process was joined and the final value was read.
C4_Witness ==
    /\ scenario = "shared_memory"
    /\ mpFinal = NumProcesses * TimesPerProcess
    /\ mpJoined = NumProcesses

\* C7: when the five threads of demo_bank_account_threading are joined, every
\* operation has succeeded and the balances are 900 and 775, whatever the
\* interleaving and whatever the order of the two objects' ids.
C7_BankDemoDeterministic ==
    (scenario = "bank_demo" /\ bankJoined = Len(opSpec))
        => /\ balance["account1"] = 900
           /\ balance["account2"] = 775
           /\ \A t \in BankThreads : opResult[t] \in {"None", "True"}

\* C7 witness: all five threads are joined after the transfer credited account2
\* before the deposit into account2 was stored.
C7_Witness ==
    /\ scenario = "bank_demo"
    /\ bankJoined = Len(opSpec)
    /\ transactions["account2"][1] = <<"Transfer in", 150>>
    /\ balance["account1"] = 900

\* C8: every transfer that was started returns, whatever the accounts involved
\* (a to b, b to a, a to a) and whatever the order of the objects' ids: the two
\* locks are always taken in the order of the ids, so no thread waits forever.
C8_TransfersReturn == \A t \in TransferThreads : <>(opPc[t] = "done")

\* C8 witness: two transfers in opposite directions have both returned.
C8_Witness ==
    /\ scenario = "transfer"
    /\ \A t \in TransferThreads : opPc[t] = "done"
    /\ \E t, u \in TransferThreads :
          /\ opSpec[t].self = opSpec[u].other
          /\ opSpec[t].other = opSpec[u].self
          /\ opSpec[t].self # opSpec[t].other
          /\ opResult[t] = "True"

\* C9: once stop() has been called, every producer and every consumer thread
\* eventually reaches its "finished" statement.
C9_StopStopsAll ==
    stop_event ~> ((\A p \in Producers : prodPc[p] = "finished")
                     /\ (\A c \in Consumers : consPc[c] = "finished"))

\* C1: demo_function runs to completion without raising: nothing raised inside
\* demo_error_exception() or demo_concurrency() reaches demo_function's caller.
C1_DemoFunctionDoesNotRaise ==
    scenario = "demo_function" => (dfPc # "raised" /\ dfExc = "None")

\* C5: when a demo that cleans up in a finally block is left, by returning or
\* by an exception out of a try body, no file it created exists any more.
C5_TempFilesRemoved ==
    ( /\ scenario = "file_demo"
      /\ fioFunc \in FinallyDemos
      /\ fioPhase \in {"returned", "raised"}
      /\ fioOrigin # "create" )
        => fioCreated \cap files = {}

\* C5 witness: demo_advanced_io was left by an exception out of the try body of
\* its third file, and the three files it had created are gone.
C5_Witness ==
    /\ scenario = "file_demo"
    /\ fioFunc = "demo_advanced_io"
    /\ fioPhase = "raised"
    /\ fioOrigin = "body"
    /\ fioCreated = {"temp.bin", "temp.csv", "temp.txt"}
    /\ files = {}

\* C6: when demo_file_operations is left, on any path, including those where
\* one of its except clauses handled an exception raised part-way, neither
\* the .txt file nor the .json file it created exists any more.
C6_BothFilesRemoved ==
    ( /\ scenario = "file_demo"
      /\ fioFunc = "demo_file_operations"
      /\ fioPhase \in {"returned", "raised"}
      /\ fioOrigin # "create" )
        => fioCreated \cap files = {}

\* C10: demo_exit_stack ends by returning normally, after the ValueError
\* raised inside the with block was caught by its except clause and with all
\* three resources closed.
C10_ExitStackCleansUpAndReturns ==
    (scenario = "exit_stack" /\ esPc \in {"returned", "raised"})
        => /\ esPc = "returned"
           /\ esCaught = "ValueError"
           /\ \A r \in DOMAIN is_open : ~is_open[r]

\* C11: the wrapper of retry_with_backoff never reaches the `raise
\* last_exception` that follows its loop: for every max_retries and every
\* behaviour of func it is left by the return or by the raise inside the loop.
C11_RaiseAfterLoopNeverReached ==
    scenario = "retry" =>
        /\ rtPc # "after_loop"
        /\ rtPc = "left" => rtExit \in {"return", "raise in loop"}
\* C12: no two invocations of run_application, whether made by main() at
\* startup or by on_modified, begin less than debounce_seconds apart.
C12_NoRapidRuns ==
    scenario = "watcher" =>
        \A i, j \in 1..Len(runBegins) :
            i < j => runBegins[j] - runBegins[i] >= debounce_seconds * TicksPerSecond
\* C13: after any sequence of DatabaseConnection(host, port) calls every call
\* has returned the same object, __init__ ran once, the object's host and port
\* are those of the first call, and _instances has one entry.
C13_OneInstance ==
    (scenario = "singleton" /\ sgCalls # << >>) =>
        /\ \A i \in 1..Len(sgReturned) : sgReturned[i] = sgReturned[1]
        /\ initRuns = 1
        /\ objects[sgReturned[1]].host = sgCalls[1].host
        /\ objects[sgReturned[1]].port = sgCalls[1].port
        /\ DOMAIN instances = {"DatabaseConnection"}

\* C13 witness: the calls of demo_metaclasses, and one more, have returned;
\* the second call named another server and the object is connected.
C13_Witness ==
    /\ scenario = "singleton"
    /\ Len(sgReturned) = MaxCalls
    /\ sgCalls[1] = [host |-> "server1", port |-> 5432]
    /\ sgCalls[2] = [host |-> "server2", port |-> 3306]
    /\ objects[sgReturned[2]].host = "server1"
    /\ objects[sgReturned[2]].connected
\* C14: read_config_file never raises; it returns the dictionary when the file
\* exists, could be read and holds a JSON object, and None in every other
\* case.  write_log_entry never raises; it returns True when nothing failed
\* and False otherwise.
C14_UtilsNeverRaise ==
    (scenario = "utils" /\ utPc = "left") =>
        /\ utExc = "None"
        /\ utFunc = "read_config_file" =>
              utResult = IF /\ utCaught = "None"
                            /\ utPath.kind = "file"
                            /\ utPath.content = "object"
                         THEN "dict" ELSE "None"
        /\ utFunc = "write_log_entry" =>
              utResult = IF utCaught = "None" THEN "True" ELSE "False"

\* C14 witness: read_config_file has returned None for a file that holds a
\* JSON array, without any exception.
C14_Witness ==
    /\ scenario = "utils"
    /\ utFunc = "read_config_file"
    /\ utPc = "left"
    /\ utPath = [kind |-> "file", content |-> "array"]
    /\ utCaught = "None"
    /\ utResult = "None"
\* C15: when a run of main() is over, every package's demo driver
\* (demo_error_exception, demo_classes, demo_concurrency, demo_input_output)
\* has been invoked exactly once.
C15_EachDriverOnce ==
    (scenario = "main" /\ mnPc \in {"returned", "raised"}) =>
        \A d \in Drivers : invocations[d] = 1
\* C16: right after Duck(name) is constructed the duck has can_fly = True,
\* altitude = 0, can_swim = True and depth = 0, and demo_multiple_inheritance
\* reports "Can fly: True" and "Can swim: True".
C16_DuckFullyInitialised ==
    scenario = "duck" =>
        /\ dkPc = "constructed" =>
              /\ {"can_fly", "altitude", "can_swim", "depth"} \subseteq DOMAIN attrs
              /\ attrs["can_fly"] = TRUE /\ attrs["altitude"] = 0
              /\ attrs["can_swim"] = TRUE /\ attrs["depth"] = 0
        /\ dkPc = "returned" => dkReport = [can_fly |-> TRUE, can_swim |-> TRUE]
\* C17: demo_multiprocessing never lets an Exception of a sub-demo out: when
\* one raises, the sub-demos after it are skipped, the message is printed and
\* the function returns, so that demo_concurrency can call
\* demo_concurrent_futures.
C17_MultiprocessingCatches ==
    scenario = "demo_multiprocessing" =>
        /\ mdPc # "raised"
        /\ mdPc = "returned" =>
              /\ mdExc = "None"
              /\ ENABLED ConcurrentFuturesCalled \/ futuresCalled
              /\ IF mdCaught = "None" THEN mdRan = SubDemos
                 ELSE Len(mdRan) < Len(SubDemos)

\* C17 witness: demo_shared_memory raised, its message was printed, the two
\* sub-demos after it never ran, and demo_concurrent_futures was called.
C17_Witness ==
    /\ scenario = "demo_multiprocessing"
    /\ mdRan = SubSeq(SubDemos, 1, 3)
    /\ mdCaught = "OSError"
    /\ mdPc = "returned"
    /\ futuresCalled
\* C18: the balance of a basic_classes.BankAccount is never negative; a call
\* with amount <= 0 raises ValueError and a withdraw of more than the balance
\* returns False, both leaving balance and history as they were; the history
\* has one entry per successful operation, one more after each, and changing
\* the list get_transaction_history() returned changes nothing in the account.
C18_BasicAccountSound ==
    scenario = "basic_account" =>
        /\ bcBalance >= 0
        /\ Len(bcLists[1]) = bcSucceeded
        /\ bcLast.op \in {"deposit", "withdraw"} =>
              /\ bcLast.result = "ValueError" <=> bcLast.amount <= 0
              /\ bcLast.result = "False" <=>
                    (bcLast.op = "withdraw" /\ bcLast.amount > 0
                        /\ bcLast.amount > bcLast.balance)
              /\ IF bcLast.result \in {"ValueError", "False"}
                 THEN bcBalance = bcLast.balance /\ bcLists[1] = bcLast.history
                 ELSE /\ Len(bcLists[1]) = Len(bcLast.history) + 1
                      /\ SubSeq(bcLists[1], 1, Len(bcLast.history)) = bcLast.history
        /\ bcLast.op \in {"get_transaction_history", "mutate"} =>
              bcBalance = bcLast.balance /\ bcLists[1] = bcLast.history

\* C18 witness: after one successful operation the caller cleared the list
\* get_transaction_history() gave it, and the account still has its entry.
C18_Witness ==
    /\ scenario = "basic_account"
    /\ bcLast.op = "mutate"
    /\ bcReturned # 0
    /\ bcLists[bcReturned] = << >>
    /\ Len(bcLists[1]) = 1
    /\ bcBalance > 0
====
